---- MODULE Spec2Model ----
(***************************************************************************)
(* A model of the rust-os kernel core: the SV39 address algebra            *)
(* (os/src/mm/address.rs), the task control block life cycle               *)
(* (os/src/task/task.rs) and the syscall dispatcher with its time          *)
(* accounting (os/src/syscall/mod.rs).                                     *)
(*                                                                         *)
(* Three specifications share the variables:                               *)
(*   SpecAddr  the pure address algebra applied to bounded inputs          *)
(*   Spec      the task control blocks, their address spaces and frames    *)
(*   SpecSys   the syscall dispatcher, the clock and the run-time counters *)
(***************************************************************************)
EXTENDS Integers, Sequences, FiniteSets, TLC

VARIABLES
    overflow_checks, \* build profile: TRUE = arithmetic overflow panics, FALSE = it wraps
    addr,            \* registers of the address-algebra computations
    range,           \* a SimpleRange<VirtPageNum> and its iterator
    tasks,           \* the TaskControlBlocks created so far (Arc<TaskControlBlock>)
    frames,          \* physical memory: allocated frame -> contents
    next_pid,        \* the pid allocator
    next_file,       \* number of file objects (Arc<dyn File>) created so far
    files,           \* the strong count of each file object's Arc, 0 once it is dropped
    last,            \* the last task operation performed, with its arguments
    sys              \* the state of the syscall dispatcher, clock and counters

vars == <<overflow_checks, addr, range, tasks, frames, next_pid, next_file, files, last, sys>>

(***************************************************************************)
(* Machine words.  A usize is a 64-bit word, kept as the sequence of its   *)
(* bits, least significant first: bit i of the word is w[i+1].             *)
(***************************************************************************)
WORD_BITS == 64

BitIdx == 1..WORD_BITS

Zero == [i \in BitIdx |-> 0]

One == [i \in BitIdx |-> IF i = 1 THEN 1 ELSE 0]

Bit(w, i) == w[i + 1]

BitAnd(a, b) == [i \in BitIdx |-> IF a[i] = 1 /\ b[i] = 1 THEN 1 ELSE 0]

BitOr(a, b) == [i \in BitIdx |-> IF a[i] = 1 \/ b[i] = 1 THEN 1 ELSE 0]

BitNot(a) == [i \in BitIdx |-> 1 - a[i]]

Shl(a, n) == [i \in BitIdx |-> IF i - n >= 1 THEN a[i - n] ELSE 0]

Shr(a, n) == [i \in BitIdx |-> IF i + n <= WORD_BITS THEN a[i + n] ELSE 0]

\* the bits i.. of a + b + cin, followed by the carry out of the word
RECURSIVE AddBits(_, _, _, _)
AddBits(a, b, cin, i) ==
    IF i > WORD_BITS THEN <<cin>>
    ELSE LET t == a[i] + b[i] + cin
         IN  <<t % 2>> \o AddBits(a, b, IF t >= 2 THEN 1 ELSE 0, i + 1)

\* a + b modulo 2^64
WrappingAdd(a, b) == SubSeq(AddBits(a, b, 0, 1), 1, WORD_BITS)

AddOverflows(a, b) == AddBits(a, b, 0, 1)[WORD_BITS + 1] = 1

\* a - b modulo 2^64, as a + ~b + 1
WrappingSub(a, b) == SubSeq(AddBits(a, BitNot(b), 1, 1), 1, WORD_BITS)

\* a < b as unsigned numbers: a - b borrows
Less(a, b) == AddBits(a, BitNot(b), 1, 1)[WORD_BITS + 1] = 0

GreaterEq(a, b) == ~Less(a, b)

\* the result of an operation that may panic
Ok(w) == [panic |-> FALSE, v |-> w]

Panic == [panic |-> TRUE, v |-> Zero]

\* Rust's `a + b` on usize: panics on overflow when the build checks it, wraps otherwise
Add(a, b) == IF overflow_checks /\ AddOverflows(a, b) THEN Panic ELSE Ok(WrappingAdd(a, b))

\* Rust's `a - b` on usize
Sub(a, b) == IF overflow_checks /\ Less(a, b) THEN Panic ELSE Ok(WrappingSub(a, b))

(***************************************************************************)
(* os/src/mm/address.rs                                                    *)
(***************************************************************************)
PAGE_SIZE_BITS == 12

PAGE_SIZE == Shl(One, PAGE_SIZE_BITS)

PA_WIDTH_SV39 == 56

VA_WIDTH_SV39 == 39

PPN_WIDTH_SV39 == PA_WIDTH_SV39 - PAGE_SIZE_BITS

VPN_WIDTH_SV39 == VA_WIDTH_SV39 - PAGE_SIZE_BITS

\* (1 << width) - 1 ; width < 64, so neither the shift nor the subtraction overflows
LowMask(width) == WrappingSub(Shl(One, width), One)

\* impl From<usize> for PhysAddr
PhysAddr_from_usize(va) == BitAnd(va, LowMask(PA_WIDTH_SV39))

\* impl From<usize> for PhysPageNum
PhysPageNum_from_usize(va) == Shr(BitAnd(va, LowMask(PA_WIDTH_SV39)), PAGE_SIZE_BITS)

\* impl From<usize> for VirtAddr
VirtAddr_from_usize(a) == BitAnd(a, LowMask(VA_WIDTH_SV39))

\* impl From<usize> for VirtPageNum
VirtPageNum_from_usize(va) == Shr(BitAnd(va, LowMask(VA_WIDTH_SV39)), PAGE_SIZE_BITS)

\* impl From<PhysAddr> for usize, impl From<PhysPageNum> for usize,
\* impl From<VirtPageNum> for usize: the struct's member
usize_from_member(v) == v

\* the conversion as it would be with the threshold at 1 << VA_WIDTH_SV39
usize_from_VirtAddr_late(v) ==
    IF GreaterEq(v, Shl(One, VA_WIDTH_SV39))
    THEN BitOr(v, BitNot(LowMask(VA_WIDTH_SV39)))
    ELSE v

\* impl From<VirtAddr> for usize
usize_from_VirtAddr(v) ==
    IF GreaterEq(v, Shl(One, VA_WIDTH_SV39 - 1))
    THEN BitOr(v, BitNot(LowMask(VA_WIDTH_SV39)))
    ELSE v

\* x / PAGE_SIZE on unsigned words: PAGE_SIZE is 2^PAGE_SIZE_BITS
DivPageSize(x) == Shr(x, PAGE_SIZE_BITS)

\* VirtAddr::floor, PhysAddr::floor
Addr_floor(a) == DivPageSize(a)

\* VirtAddr::ceil, PhysAddr::ceil: (self.0 - 1 + PAGE_SIZE) / PAGE_SIZE
Addr_ceil(a) ==
    LET d == Sub(a, One)
    IN  IF d.panic THEN Panic
        ELSE LET s == Add(d.v, PAGE_SIZE)
             IN  IF s.panic THEN Panic ELSE Ok(DivPageSize(s.v))

VirtAddr_floor(a) == Addr_floor(a)

VirtAddr_ceil(a) == Addr_ceil(a)

PhysAddr_floor(a) == Addr_floor(a)

PhysAddr_ceil(a) == Addr_ceil(a)

\* VirtAddr::page_offset, PhysAddr::page_offset
page_offset(a) == BitAnd(a, WrappingSub(PAGE_SIZE, One))

\* VirtAddr::aligned, PhysAddr::aligned
aligned(a) == page_offset(a) = Zero

\* impl From<VirtAddr> for VirtPageNum
VirtPageNum_from_VirtAddr(v) == VirtAddr_floor(v)

\* impl From<VirtPageNum> for VirtAddr
VirtAddr_from_VirtPageNum(v) == Shl(v, PAGE_SIZE_BITS)

\* impl From<PhysAddr> for PhysPageNum
PhysPageNum_from_PhysAddr(v) == PhysAddr_floor(v)

\* the conversion as it would be if it took the struct's member without the shift
PhysAddr_from_PhysPageNum_member(v) == v

\* impl From<PhysPageNum> for PhysAddr
PhysAddr_from_PhysPageNum(v) == Shl(v, PAGE_SIZE_BITS)

\* the loop of VirtPageNum::indexes: for i in (0..3).rev() { idx[i] = vpn & 0x1ff; vpn >>= 9 }
\* idx is 0-based in the source and 1-based here; i counts down from 2 to 0
RECURSIVE indexes_loop(_, _, _)
indexes_loop(vpn, idx, i) ==
    IF i < 0 THEN idx
    ELSE indexes_loop(Shr(vpn, 9), [idx EXCEPT ![i + 1] = BitAnd(vpn, LowMask(9))], i - 1)

\* the loop as it would be without .rev(): idx[0] is filled first
RECURSIVE indexes_loop_forward(_, _, _)
indexes_loop_forward(vpn, idx, i) ==
    IF i > 2 THEN idx
    ELSE indexes_loop_forward(Shr(vpn, 9), [idx EXCEPT ![i + 1] = BitAnd(vpn, LowMask(9))], i + 1)

VirtPageNum_indexes_forward(v) == indexes_loop_forward(v, <<Zero, Zero, Zero>>, 0)

\* VirtPageNum::indexes
VirtPageNum_indexes(v) == indexes_loop(v, <<Zero, Zero, Zero>>, 2)


(***************************************************************************)
(* SimpleRange<T> and its iterator.  T is only required to be ordered and  *)
(* to step by one, so page numbers are kept as naturals here:              *)
(* VirtPageNum(n) is n, and step is +1.                                    *)
(***************************************************************************)
\* StepByOne for VirtPageNum: self.0 += 1
VirtPageNum_step(n) == n + 1

\* SimpleRange::new: assert!(start <= end), then Self { l: start, r: end }
SimpleRange_new(start, end) ==
    IF start <= end THEN [panic |-> FALSE, l |-> start, r |-> end]
    ELSE [panic |-> TRUE, l |-> start, r |-> end]

\* SimpleRangeIterator::new, called by into_iter with (self.l, self.r)
SimpleRangeIterator_new(l, r) == [current |-> l, end |-> r]

\* IntoIterator for SimpleRange (the range is Copy: it is left as it is)
SimpleRange_into_iter(rg) == SimpleRangeIterator_new(rg.l, rg.r)

\* next as it would be if it stepped before taking the item
SimpleRangeIterator_next_steps_first(it) ==
    IF it.current = it.end THEN [it |-> it, item |-> <<>>]
    ELSE [it |-> [it EXCEPT !.current = VirtPageNum_step(it.current)],
          item |-> <<VirtPageNum_step(it.current)>>]

\* SimpleRangeIterator::next: the iterator after the call and the item (<<>> is None)
SimpleRangeIterator_next(it) ==
    IF it.current = it.end THEN [it |-> it, item |-> <<>>]
    ELSE [it |-> [it EXCEPT !.current = VirtPageNum_step(it.current)],
          item |-> <<it.current>>]

(***************************************************************************)
(* The address-algebra computations: an input word x, and registers        *)
(* holding the results of the operations applied so far.                   *)
(***************************************************************************)
\* input words are unions of at most MaxPieces bit runs, and their complements
MaxPieces == 3

\* the runs are cut at the boundaries the algebra cares about: the page offset
\* (12), the index fields (21, 30), the sign bit (38), the address widths (39, 56)
Cuts == <<0, 1, 12, 13, 21, 30, 38, 39, 56, 63, 64>>

Pieces == 1..(Len(Cuts) - 1)

OrPieces(s) ==
    [i \in BitIdx |-> IF \E k \in s : Cuts[k] < i /\ i <= Cuts[k + 1] THEN 1 ELSE 0]

InputWords ==
    LET small == {s \in SUBSET Pieces : Cardinality(s) <= MaxPieces}
    IN  {OrPieces(s) : s \in small} \cup {BitNot(OrPieces(s)) : s \in small}

\* the second pass of a from-then-into round trip starts from the first one's result
MaxPasses == 1

\* page numbers of the ranges
MaxPage == 3

\* how many times one range value is iterated
MaxRuns == 2

Has(n) == n \in DOMAIN addr.r

Reg(n) == addr.r[n]

Put(n, v) == addr' = [addr EXCEPT !.r = (n :> v) @@ addr.r]

NoRange == [st |-> "none", l |-> 0, r |-> 0, iter |-> <<>>, out |-> <<>>,
            done |-> FALSE, runs |-> 0]

\* no computation under way (and no input word)
AddrIdle == [x |-> <<>>, pass |-> 0, grp |-> "none", r |-> <<>>]

otherVarsAddr == <<overflow_checks, tasks, frames, next_pid, next_file, files, last, sys>>

\* let va = VirtAddr::from(x)
DoVirtAddrFrom ==
    /\ addr.grp = "none"
    /\ addr' = [addr EXCEPT !.grp = "va", !.r = "va" :> VirtAddr_from_usize(addr.x)]
    /\ UNCHANGED <<range, otherVarsAddr>>

\* let u: usize = va.into()
DoUsizeFromVirtAddr ==
    /\ Has("va") /\ ~Has("va_usize")
    /\ Put("va_usize", usize_from_VirtAddr(Reg("va")))
    /\ UNCHANGED <<range, otherVarsAddr>>

\* the round trip is applied again to its own result
DoSecondPass ==
    /\ Has("va_usize") /\ addr.pass < MaxPasses
    /\ addr' = [x |-> Reg("va_usize"), pass |-> addr.pass + 1, grp |-> "none", r |-> <<>>]
    /\ UNCHANGED <<range, otherVarsAddr>>

\* va.floor()
DoVirtAddrFloor ==
    /\ Has("va") /\ ~Has("va_floor")
    /\ Put("va_floor", VirtAddr_floor(Reg("va")))
    /\ UNCHANGED <<range, otherVarsAddr>>

\* va.ceil()
DoVirtAddrCeil ==
    /\ Has("va") /\ ~Has("va_ceil")
    /\ Put("va_ceil", VirtAddr_ceil(Reg("va")))
    /\ UNCHANGED <<range, otherVarsAddr>>

\* va.page_offset(), va.aligned(), after the conversions above
DoVirtAddrAligned ==
    /\ Has("va_usize") /\ Has("va_floor") /\ Has("va_ceil") /\ ~Has("va_off")
    /\ Put("va_off", [page_offset |-> page_offset(Reg("va")), aligned |-> aligned(Reg("va"))])
    /\ UNCHANGED <<range, otherVarsAddr>>

\* let pa = PhysAddr::from(x)
DoPhysAddrFrom ==
    /\ addr.grp = "none" /\ addr.pass = 0
    /\ addr' = [addr EXCEPT !.grp = "pa", !.r = "pa" :> PhysAddr_from_usize(addr.x)]
    /\ UNCHANGED <<range, otherVarsAddr>>

\* pa.floor()
DoPhysAddrFloor ==
    /\ Has("pa") /\ ~Has("pa_floor")
    /\ Put("pa_floor", PhysAddr_floor(Reg("pa")))
    /\ UNCHANGED <<range, otherVarsAddr>>

\* pa.ceil()
DoPhysAddrCeil ==
    /\ Has("pa") /\ ~Has("pa_ceil")
    /\ Put("pa_ceil", PhysAddr_ceil(Reg("pa")))
    /\ UNCHANGED <<range, otherVarsAddr>>

\* let vpn = VirtPageNum::from(x)
DoVirtPageNumFrom ==
    /\ addr.grp = "none" /\ addr.pass = 0
    /\ addr' = [addr EXCEPT !.grp = "vpn", !.r = "vpn" :> VirtPageNum_from_usize(addr.x)]
    /\ UNCHANGED <<range, otherVarsAddr>>

\* let a: VirtAddr = vpn.into()
DoVirtAddrFromVirtPageNum ==
    /\ Has("vpn") /\ ~Has("vpn_addr")
    /\ Put("vpn_addr", VirtAddr_from_VirtPageNum(Reg("vpn")))
    /\ UNCHANGED <<range, otherVarsAddr>>

\* let back: VirtPageNum = a.into(), which is a.floor()
DoVirtPageNumFromVirtAddr ==
    /\ Has("vpn_addr") /\ ~Has("vpn_back")
    /\ Put("vpn_back", VirtPageNum_from_VirtAddr(Reg("vpn_addr")))
    /\ UNCHANGED <<range, otherVarsAddr>>

\* vpn.indexes()
DoIndexes ==
    /\ Has("vpn") /\ ~Has("vpn_idx")
    /\ Put("vpn_idx", VirtPageNum_indexes(Reg("vpn")))
    /\ UNCHANGED <<range, otherVarsAddr>>

\* StepByOne for VirtPageNum on a usize: self.0 += 1
VirtPageNum_step_usize(v) == Add(v, One)

\* let u: usize = VirtAddr::from(vpn).into(): the page-start address as a flat integer
PageStartUsize(vpn) == usize_from_VirtAddr(VirtAddr_from_VirtPageNum(vpn))

\* the result that holds the page-start address of the page number in a result
StartReg == [vpn |-> "vpn_start", va_floor |-> "floor_start", va_ceil |-> "ceil_start"]

\* the results computed before the page-start address of a result is
StartAfter == [vpn |-> {"vpn_back", "vpn_idx"}, va_floor |-> {"va_off"},
               va_ceil |-> {"floor_start"}]

\* the page-start address, as usize, of a page number obtained by from(usize), floor
\* or ceil
DoPageStart(src) ==
    /\ Has(src) /\ ~Has(StartReg[src])
    /\ \A n \in StartAfter[src] : Has(n)
    /\ src = "va_ceil" => ~Reg(src).panic
    /\ Put(StartReg[src], PageStartUsize(IF src = "va_ceil" THEN Reg(src).v ELSE Reg(src)))
    /\ UNCHANGED <<range, otherVarsAddr>>

\* vpn.step(), then the page-start address of the stepped page number as usize
DoPageStartStepped ==
    /\ Has("vpn_start") /\ ~Has("step_start")
    /\ LET stepped == VirtPageNum_step_usize(Reg("vpn"))
       IN  /\ ~stepped.panic
           /\ Put("step_start", PageStartUsize(stepped.v))
    /\ UNCHANGED <<range, otherVarsAddr>>

\* let ppn = PhysPageNum::from(x)
DoPhysPageNumFrom ==
    /\ addr.grp = "none" /\ addr.pass = 0
    /\ addr' = [addr EXCEPT !.grp = "ppn", !.r = "ppn" :> PhysPageNum_from_usize(addr.x)]
    /\ UNCHANGED <<range, otherVarsAddr>>

\* let a: PhysAddr = ppn.into()
DoPhysAddrFromPhysPageNum ==
    /\ Has("ppn") /\ ~Has("ppn_addr")
    /\ Put("ppn_addr", PhysAddr_from_PhysPageNum(Reg("ppn")))
    /\ UNCHANGED <<range, otherVarsAddr>>

\* let back: PhysPageNum = a.into(), which is a.floor()
DoPhysPageNumFromPhysAddr ==
    /\ Has("ppn_addr") /\ ~Has("ppn_back")
    /\ Put("ppn_back", PhysPageNum_from_PhysAddr(Reg("ppn_addr")))
    /\ UNCHANGED <<range, otherVarsAddr>>

\* let range = SimpleRange::new(VirtPageNum(l), VirtPageNum(r))
DoRangeNew ==
    /\ addr.grp = "none" /\ addr.pass = 0
    /\ \E l \in 0..MaxPage, r \in 0..MaxPage :
         LET rg == SimpleRange_new(l, r)
         IN  range' = [NoRange EXCEPT !.st = IF rg.panic THEN "panic" ELSE "range",
                                      !.l = rg.l, !.r = rg.r]
    /\ addr' = [AddrIdle EXCEPT !.grp = "range"]
    /\ UNCHANGED otherVarsAddr

\* for p in range { .. }: the loop takes a fresh iterator from the (Copy) range
DoIntoIter ==
    /\ range.st = "range"
    /\ range.iter = <<>> \/ range.done
    /\ range.runs < MaxRuns
    /\ range' = [range EXCEPT !.iter = <<SimpleRange_into_iter(range)>>,
                              !.out = <<>>, !.done = FALSE, !.runs = @ + 1]
    /\ UNCHANGED <<addr, otherVarsAddr>>

\* one call of next() by the loop, which stops at the first None
DoIterNext ==
    /\ range.st = "range" /\ range.iter # <<>> /\ ~range.done
    /\ Len(range.out) <= MaxPage
    /\ LET n == SimpleRangeIterator_next(range.iter[1])
       IN  range' = [range EXCEPT !.iter = <<n.it>>,
                                  !.out = @ \o n.item,
                                  !.done = (n.item = <<>>)]
    /\ UNCHANGED <<addr, otherVarsAddr>>


(***************************************************************************)
(* Physical frames and address spaces (MemorySet).  A frame's contents are *)
(* its data bytes, abstracted to one number, and the TrapContext that      *)
(* get_mut::<TrapContext>() reads out of it.  An address space is its page *)
(* table, virtual page -> physical frame, and the image it was loaded from.*)
(***************************************************************************)
MaxTasks == 3

\* program images are 1..NumElfs
NumElfs == 2

\* values user code stores and registers hold are 0..MaxVal
MaxVal == 1

\* milliseconds added to a TCB's timers, at most
MaxTimer == 1

Elfs == 1..NumElfs

TRAMPOLINE == "TRAMPOLINE"

\* VirtAddr::from(TRAP_CONTEXT).into(): the virtual page of the trap context
TRAP_CONTEXT == "TRAP_CONTEXT"

\* the order in which an address space maps (and allocates frames for) its pages
PageOrder == <<"text", "data", "stack", TRAP_CONTEXT>>

\* the pages user code may store to
WritablePages == {"data", "stack"}

\* the loadable pages of an image: every image has text and a user stack,
\* the even ones a data segment too
ElfPages(e) == IF e % 2 = 0 THEN {"text", "data", "stack"} ELSE {"text", "stack"}

\* the entry point and the initial user stack pointer from_elf returns
ElfEntry(e) == e

ElfUserSp(e) == NumElfs + e

\* what from_elf copies into the text page
ElfCode(e) == MaxVal + e

\* the physical page of the trampoline code (strampoline), shared by all spaces
TrampolinePpn == 0

\* frames 1..MaxFrames can be allocated: enough for every space and one being built
MaxFrames == (MaxTasks + 1) * Len(PageOrder)

\* a frame as frame_alloc hands it out: zeroed
ZeroCx == [sepc |-> 0, sp |-> 0, kernel_satp |-> "0", kernel_sp |-> 0,
           trap_handler |-> "0", regs |-> 0]

ZeroPage == [bytes |-> 0, cx |-> ZeroCx]

\* the trampoline page holds the trap entry and exit code
TrampolineCode == [ZeroPage EXCEPT !.bytes = MaxVal + NumElfs + 1]

\* frame_alloc: the lowest free frame
frame_alloc(fr) == CHOOSE p \in 1..MaxFrames :
                      /\ p \notin DOMAIN fr
                      /\ \A q \in 1..MaxFrames : q \notin DOMAIN fr => p <= q

CanAlloc(fr, n) == Cardinality((1..MaxFrames) \ DOMAIN fr) >= n

\* map the pages PageOrder[i..] that are in `pages`, each onto a fresh frame
\* holding init[page]
RECURSIVE map_pages(_, _, _, _, _)
map_pages(fr, pt, pages, init, i) ==
    IF i > Len(PageOrder) THEN [frames |-> fr, pt |-> pt]
    ELSE LET v == PageOrder[i]
         IN  IF v \notin pages THEN map_pages(fr, pt, pages, init, i + 1)
             ELSE LET p == frame_alloc(fr)
                  IN  map_pages((p :> init[v]) @@ fr, (v :> p) @@ pt, pages, init, i + 1)

\* MemorySet::from_elf: (memory_set, user_sp, entry_point), and the frames after it
MemorySet_from_elf(fr, e) ==
    LET pages == ElfPages(e) \cup {TRAP_CONTEXT}
        init == [v \in pages |-> IF v = "text" THEN [ZeroPage EXCEPT !.bytes = ElfCode(e)]
                                 ELSE ZeroPage]
        m == map_pages(fr, (TRAMPOLINE :> TrampolinePpn), pages, init, 1)
    IN  [memory_set |-> [pt |-> m.pt, elf |-> e],
         user_sp |-> ElfUserSp(e),
         entry_point |-> ElfEntry(e),
         frames |-> m.frames]

\* MemorySet::from_existed_user: every mapped frame copied into a new one, the
\* trampoline mapped onto the same physical page
MemorySet_from_existed_user(fr, user_space) ==
    LET pages == DOMAIN user_space.pt \ {TRAMPOLINE}
        init == [v \in pages |-> fr[user_space.pt[v]]]
        m == map_pages(fr, (TRAMPOLINE :> TrampolinePpn), pages, init, 1)
    IN  [memory_set |-> [pt |-> m.pt, elf |-> user_space.elf], frames |-> m.frames]

\* MemorySet::translate(vpn): the entry's ppn, <<>> when the page is not mapped
MemorySet_translate(ms, vpn) == IF vpn \in DOMAIN ms.pt THEN <<ms.pt[vpn]>> ELSE <<>>

\* dropping a MemorySet releases every frame it allocated (not the trampoline)
MemorySet_drop(fr, ms) ==
    LET gone == {ms.pt[v] : v \in DOMAIN ms.pt \ {TRAMPOLINE}}
    IN  [p \in DOMAIN fr \ gone |-> fr[p]]

(***************************************************************************)
(* os/src/task/task.rs                                                     *)
(***************************************************************************)
\* pid_alloc(): the next unused pid
pid_alloc(n) == [pid |-> n, next_pid |-> n + 1]

\* KernelStack::new(&pid_handle): the kernel stack at the position of that pid
KernelStack_new(pid) == [kstack_of_pid |-> pid]

\* KernelStack::get_top: a different, non-zero address for every pid
KernelStack_get_top(ks) == ks.kstack_of_pid + 1

\* TaskContext::goto_trap_return(kstack_ptr)
TaskContext_goto_trap_return(kstack_ptr) == [ra |-> "trap_return", sp |-> kstack_ptr]

\* KERNEL_SPACE.exclusive_access().token()
KernelToken == "kernel_token"

\* TrapContext::app_init_context(entry, sp, kernel_satp, kernel_sp, trap_handler)
TrapContext_app_init_context(entry, sp, kernel_satp, kernel_sp, trap_handler) ==
    [sepc |-> entry, sp |-> sp, kernel_satp |-> kernel_satp, kernel_sp |-> kernel_sp,
     trap_handler |-> trap_handler, regs |-> 0]

\* Arc::new(Stdin), Arc::new(Stdout): a new file object
NewFile(id, kind) == <<[file |-> id, kind |-> kind]>>

\* TaskControlBlockInner::get_trap_cx: the TrapContext in frame trap_cx_ppn
get_trap_cx(fr, inner) == fr[inner.trap_cx_ppn].cx

\* *inner.get_trap_cx() = cx
set_trap_cx(fr, inner, cx) == [fr EXCEPT ![inner.trap_cx_ppn].cx = cx]

\* alloc_fd as it would be if it always pushed a new empty slot
alloc_fd_always_pushes(inner) ==
    LET pushed == [inner EXCEPT !.fd_table = Append(@, <<>>)]
    IN  [fd |-> Len(pushed.fd_table) - 1, inner |-> pushed]

\* TaskControlBlockInner::alloc_fd: the returned fd and the inner state after the call.
\* (0..len).find(is_none) is the first empty slot; slot fd of the code is element
\* fd + 1 of the sequence
alloc_fd(inner) ==
    LET len == Len(inner.fd_table)
        found == {fd \in 0..(len - 1) :
                     /\ inner.fd_table[fd + 1] = <<>>
                     /\ \A lower \in 0..(fd - 1) : inner.fd_table[lower + 1] # <<>>}
    IN  IF found # {}
        THEN [fd |-> CHOOSE fd \in found : TRUE, inner |-> inner]
        ELSE LET pushed == [inner EXCEPT !.fd_table = Append(@, <<>>)]
             IN  [fd |-> Len(pushed.fd_table) - 1, inner |-> pushed]

\* the program state the operations of a TCB read and write
State == [tasks |-> tasks, frames |-> frames, next_pid |-> next_pid,
          next_file |-> next_file, files |-> files]

\* the fd table of new as it would be without a slot for stderr
initial_fd_table_no_stderr(n) ==
    <<NewFile(n + 1, "Stdin"), NewFile(n + 2, "Stdout"), <<>>>>

\* the fd table of new: 0 -> stdin, 1 -> stdout, 2 -> stderr (a Stdout)
initial_fd_table(n) ==
    <<NewFile(n + 1, "Stdin"), NewFile(n + 2, "Stdout"), NewFile(n + 3, "Stdout")>>

\* TaskControlBlock::new
TaskControlBlock_new(st, elf_data) ==
    LET m == MemorySet_from_elf(st.frames, elf_data)
        trap_cx_ppn == MemorySet_translate(m.memory_set, TRAP_CONTEXT)[1]
        pa == pid_alloc(st.next_pid)
        kernel_stack == KernelStack_new(pa.pid)
        kernel_stack_top == KernelStack_get_top(kernel_stack)
        tcb == [pid |-> pa.pid,
                kernel_stack |-> kernel_stack,
                trap_cx_ppn |-> trap_cx_ppn,
                base_size |-> m.user_sp,
                task_cx |-> TaskContext_goto_trap_return(kernel_stack_top),
                task_status |-> "Ready",
                memory_set |-> m.memory_set,
                parent |-> <<>>,
                children |-> <<>>,
                exit_code |-> 0,
                runtime_in_user |-> 0,
                runtime_in_kernel |-> 0,
                fd_table |-> initial_fd_table(st.next_file)]
        trap_cx == TrapContext_app_init_context(m.entry_point, m.user_sp, KernelToken,
                                                kernel_stack_top, "trap_handler")
    IN  [tasks |-> Append(st.tasks, tcb),
         frames |-> set_trap_cx(m.frames, tcb, trap_cx),
         next_pid |-> pa.next_pid,
         next_file |-> st.next_file + 3,
         \* each Arc::new starts with a strong count of 1
         files |-> st.files \o <<1, 1, 1>>]

\* exec as it would be if it rebuilt the inner state the way new does: the children
\* list is lost
TaskControlBlock_exec_rebuilds(st, self, elf_data) ==
    LET m == MemorySet_from_elf(st.frames, elf_data)
        trap_cx_ppn == MemorySet_translate(m.memory_set, TRAP_CONTEXT)[1]
        old == st.tasks[self]
        inner == [old EXCEPT !.memory_set = m.memory_set, !.trap_cx_ppn = trap_cx_ppn,
                             !.children = <<>>]
        trap_cx == TrapContext_app_init_context(m.entry_point, m.user_sp, KernelToken,
                                                KernelStack_get_top(old.kernel_stack),
                                                "trap_handler")
    IN  [st EXCEPT !.tasks = [st.tasks EXCEPT ![self] = inner],
                   !.frames = set_trap_cx(MemorySet_drop(m.frames, old.memory_set),
                                          inner, trap_cx)]

\* exec as it would be if it kept the cached trap_cx_ppn of the old address space
TaskControlBlock_exec_stale_trap_cx_ppn(st, self, elf_data) ==
    LET m == MemorySet_from_elf(st.frames, elf_data)
        old == st.tasks[self]
        inner == [old EXCEPT !.memory_set = m.memory_set]
        trap_cx_ppn == MemorySet_translate(m.memory_set, TRAP_CONTEXT)[1]
        trap_cx == TrapContext_app_init_context(m.entry_point, m.user_sp, KernelToken,
                                                KernelStack_get_top(old.kernel_stack),
                                                "trap_handler")
    IN  [st EXCEPT !.tasks = [st.tasks EXCEPT ![self] = inner],
                   !.frames = [MemorySet_drop(m.frames, old.memory_set)
                                   EXCEPT ![trap_cx_ppn].cx = trap_cx]]

\* TaskControlBlock::exec
TaskControlBlock_exec(st, self, elf_data) ==
    LET m == MemorySet_from_elf(st.frames, elf_data)
        trap_cx_ppn == MemorySet_translate(m.memory_set, TRAP_CONTEXT)[1]
        old == st.tasks[self]
        \* inner.memory_set = memory_set drops the old address space
        inner == [old EXCEPT !.memory_set = m.memory_set, !.trap_cx_ppn = trap_cx_ppn]
        trap_cx == TrapContext_app_init_context(m.entry_point, m.user_sp, KernelToken,
                                                KernelStack_get_top(old.kernel_stack),
                                                "trap_handler")
    IN  [st EXCEPT !.tasks = [st.tasks EXCEPT ![self] = inner],
                   !.frames = set_trap_cx(MemorySet_drop(m.frames, old.memory_set),
                                          inner, trap_cx)]

\* Arc::clone of a file: one more owner
Arc_clone(fs, slot) == [fs EXCEPT ![slot[1].file] = @ + 1]

\* drop of an Arc of a file: one owner less; the file is dropped with its last owner
Arc_drop(fs, slot) == [fs EXCEPT ![slot[1].file] = @ - 1]

\* the copy of the fd table in fork as it would be if it pushed the occupied slots only
RECURSIVE fork_fd_table_skips_none(_, _)
fork_fd_table_skips_none(fs, fd_table) ==
    IF fd_table = <<>> THEN [fd_table |-> <<>>, files |-> fs]
    ELSE LET rest == fork_fd_table_skips_none(fs, Tail(fd_table))
             fd == Head(fd_table)
         IN  IF fd # <<>>
             THEN [fd_table |-> <<fd>> \o rest.fd_table, files |-> Arc_clone(rest.files, fd)]
             ELSE rest

\* the copy of the fd table in fork as it would be if the child's slots did not own
\* the files they refer to (no clone)
fork_fd_table_no_clone(fs, fd_table) == [fd_table |-> fd_table, files |-> fs]

\* the copy of the fd table in fork: Some(file) => push(Some(file.clone())),
\* None => push(None)
RECURSIVE fork_fd_table(_, _)
fork_fd_table(fs, fd_table) ==
    IF fd_table = <<>> THEN [fd_table |-> <<>>, files |-> fs]
    ELSE LET rest == fork_fd_table(fs, Tail(fd_table))
             fd == Head(fd_table)
         IN  IF fd # <<>>
             THEN [fd_table |-> <<fd>> \o rest.fd_table, files |-> Arc_clone(rest.files, fd)]
             ELSE [fd_table |-> <<<<>>>> \o rest.fd_table, files |-> rest.files]

\* fork as it would be without the patch of the copied trap context
fork_keeps_kernel_sp(trap_cx, kernel_stack_top) == trap_cx

\* fork: trap_cx.kernel_sp = kernel_stack_top
fork_patch_kernel_sp(trap_cx, kernel_stack_top) ==
    [trap_cx EXCEPT !.kernel_sp = kernel_stack_top]

\* fork as it would be if the child were given the parent's address space itself
\* instead of a copy of it
TaskControlBlock_fork_aliases(st, self) ==
    LET parent_inner == st.tasks[self]
        pa == pid_alloc(st.next_pid)
        kernel_stack == KernelStack_new(pa.pid)
        kernel_stack_top == KernelStack_get_top(kernel_stack)
        tcb == [pid |-> pa.pid,
                kernel_stack |-> kernel_stack,
                trap_cx_ppn |-> parent_inner.trap_cx_ppn,
                base_size |-> parent_inner.base_size,
                task_cx |-> TaskContext_goto_trap_return(kernel_stack_top),
                task_status |-> "Ready",
                memory_set |-> parent_inner.memory_set,
                parent |-> <<self>>,
                children |-> <<>>,
                exit_code |-> 0,
                runtime_in_user |-> 0,
                runtime_in_kernel |-> 0,
                fd_table |-> parent_inner.fd_table]
        child == Len(st.tasks) + 1
        trap_cx == [get_trap_cx(st.frames, tcb) EXCEPT !.kernel_sp = kernel_stack_top]
    IN  [tasks |-> Append([st.tasks EXCEPT ![self].children = Append(@, child)], tcb),
         frames |-> set_trap_cx(st.frames, tcb, trap_cx),
         next_pid |-> pa.next_pid,
         next_file |-> st.next_file,
         files |-> st.files]

\* TaskControlBlock::fork
TaskControlBlock_fork(st, self) ==
    LET parent_inner == st.tasks[self]
        m == MemorySet_from_existed_user(st.frames, parent_inner.memory_set)
        trap_cx_ppn == MemorySet_translate(m.memory_set, TRAP_CONTEXT)[1]
        pa == pid_alloc(st.next_pid)
        kernel_stack == KernelStack_new(pa.pid)
        kernel_stack_top == KernelStack_get_top(kernel_stack)
        copied == fork_fd_table(st.files, parent_inner.fd_table)
        new_fd_table == copied.fd_table
        tcb == [pid |-> pa.pid,
                kernel_stack |-> kernel_stack,
                trap_cx_ppn |-> trap_cx_ppn,
                base_size |-> parent_inner.base_size,
                task_cx |-> TaskContext_goto_trap_return(kernel_stack_top),
                task_status |-> "Ready",
                memory_set |-> m.memory_set,
                parent |-> <<self>>,
                children |-> <<>>,
                exit_code |-> 0,
                runtime_in_user |-> 0,
                runtime_in_kernel |-> 0,
                fd_table |-> new_fd_table]
        child == Len(st.tasks) + 1
        trap_cx == fork_patch_kernel_sp(get_trap_cx(m.frames, tcb), kernel_stack_top)
    IN  [tasks |-> Append([st.tasks EXCEPT ![self].children = Append(@, child)], tcb),
         frames |-> set_trap_cx(m.frames, tcb, trap_cx),
         next_pid |-> pa.next_pid,
         next_file |-> st.next_file,
         files |-> copied.files]

\* spawn as it would be if it made the child the way fork does, from the parent
TaskControlBlock_spawn_copies_parent(st, self, elf_data) == TaskControlBlock_fork(st, self)

\* spawn as it would be if it took the trap context through the parent's accessor
\* (self.inner_exclusive_access().get_trap_cx()) instead of the child's
TaskControlBlock_spawn_parent_cx(st, self, elf_data) ==
    LET m == MemorySet_from_elf(st.frames, elf_data)
        trap_cx_ppn == MemorySet_translate(m.memory_set, TRAP_CONTEXT)[1]
        pa == pid_alloc(st.next_pid)
        kernel_stack == KernelStack_new(pa.pid)
        kernel_stack_top == KernelStack_get_top(kernel_stack)
        tcb == [pid |-> pa.pid,
                kernel_stack |-> kernel_stack,
                trap_cx_ppn |-> trap_cx_ppn,
                base_size |-> m.user_sp,
                task_cx |-> TaskContext_goto_trap_return(kernel_stack_top),
                task_status |-> "Ready",
                memory_set |-> m.memory_set,
                parent |-> <<self>>,
                children |-> <<>>,
                exit_code |-> 0,
                runtime_in_user |-> 0,
                runtime_in_kernel |-> 0,
                fd_table |-> <<>>]
        child == Len(st.tasks) + 1
        trap_cx == TrapContext_app_init_context(m.entry_point, m.user_sp, KernelToken,
                                                kernel_stack_top, "trap_handler")
    IN  [tasks |-> Append([st.tasks EXCEPT ![self].children = Append(@, child)], tcb),
         frames |-> set_trap_cx(m.frames, st.tasks[self], trap_cx),
         next_pid |-> pa.next_pid,
         next_file |-> st.next_file,
         files |-> st.files]

\* spawn as it would be without parent_inner.children.push(task_control_block.clone())
TaskControlBlock_spawn_no_push(st, self, elf_data) ==
    LET m == MemorySet_from_elf(st.frames, elf_data)
        trap_cx_ppn == MemorySet_translate(m.memory_set, TRAP_CONTEXT)[1]
        pa == pid_alloc(st.next_pid)
        kernel_stack == KernelStack_new(pa.pid)
        kernel_stack_top == KernelStack_get_top(kernel_stack)
        tcb == [pid |-> pa.pid,
                kernel_stack |-> kernel_stack,
                trap_cx_ppn |-> trap_cx_ppn,
                base_size |-> m.user_sp,
                task_cx |-> TaskContext_goto_trap_return(kernel_stack_top),
                task_status |-> "Ready",
                memory_set |-> m.memory_set,
                parent |-> <<self>>,
                children |-> <<>>,
                exit_code |-> 0,
                runtime_in_user |-> 0,
                runtime_in_kernel |-> 0,
                fd_table |-> <<>>]
        trap_cx == TrapContext_app_init_context(m.entry_point, m.user_sp, KernelToken,
                                                kernel_stack_top, "trap_handler")
    IN  [tasks |-> Append(st.tasks, tcb),
         frames |-> set_trap_cx(m.frames, tcb, trap_cx),
         next_pid |-> pa.next_pid,
         next_file |-> st.next_file,
         files |-> st.files]

\* TaskControlBlock::spawn
TaskControlBlock_spawn(st, self, elf_data) ==
    LET m == MemorySet_from_elf(st.frames, elf_data)
        trap_cx_ppn == MemorySet_translate(m.memory_set, TRAP_CONTEXT)[1]
        pa == pid_alloc(st.next_pid)
        kernel_stack == KernelStack_new(pa.pid)
        kernel_stack_top == KernelStack_get_top(kernel_stack)
        tcb == [pid |-> pa.pid,
                kernel_stack |-> kernel_stack,
                trap_cx_ppn |-> trap_cx_ppn,
                base_size |-> m.user_sp,
                task_cx |-> TaskContext_goto_trap_return(kernel_stack_top),
                task_status |-> "Ready",
                memory_set |-> m.memory_set,
                parent |-> <<self>>,
                children |-> <<>>,
                exit_code |-> 0,
                runtime_in_user |-> 0,
                runtime_in_kernel |-> 0,
                fd_table |-> <<>>]
        child == Len(st.tasks) + 1
        trap_cx == TrapContext_app_init_context(m.entry_point, m.user_sp, KernelToken,
                                                kernel_stack_top, "trap_handler")
    IN  [tasks |-> Append([st.tasks EXCEPT ![self].children = Append(@, child)], tcb),
         frames |-> set_trap_cx(m.frames, tcb, trap_cx),
         next_pid |-> pa.next_pid,
         next_file |-> st.next_file,
         files |-> st.files]

\* TaskControlBlockInner::increase_user_timer
increase_user_timer(inner, ms) == [inner EXCEPT !.runtime_in_user = @ + ms]

\* TaskControlBlockInner::increase_kernel_timer
increase_kernel_timer(inner, ms) == [inner EXCEPT !.runtime_in_kernel = @ + ms]

(***************************************************************************)
(* The exclusive accessors (RefMut) of the inner cells.  Each operation    *)
(* takes and drops accessors in the order of its statements: a `let`-bound *)
(* accessor lives to the end of the function, a temporary to the end of    *)
(* its statement.  exclusive_access panics when the cell already has a     *)
(* live accessor.                                                          *)
(***************************************************************************)
InnerOf(t) == <<"inner", t>>

KERNEL_SPACE == <<"KERNEL_SPACE", 0>>

Acquire(c) == <<"acquire", c>>

Release(c) == <<"release", c>>

\* no accessor live
NoAccessors == [held |-> {}, panicked |-> FALSE, peak |-> 0]

\* UPSafeCell::exclusive_access (RefCell::borrow_mut) and the drop of a RefMut
RECURSIVE RunAccesses(_, _, _)
RunAccesses(cells, events, i) ==
    IF i > Len(events) \/ cells.panicked THEN cells
    ELSE LET ev == events[i]
             c == ev[2]
         IN  IF ev[1] = "acquire"
             THEN IF c \in cells.held
                  THEN [cells EXCEPT !.panicked = TRUE]
                  ELSE RunAccesses([cells EXCEPT !.held = @ \cup {c},
                                                 !.peak = IF Cardinality(cells.held) + 1 > @
                                                          THEN Cardinality(cells.held) + 1
                                                          ELSE @],
                                   events, i + 1)
             ELSE RunAccesses([cells EXCEPT !.held = @ \ {c}], events, i + 1)

\* TaskControlBlock::new: the accessor of the new TCB is a temporary
new_accesses(tcb) ==
    <<Acquire(InnerOf(tcb)), Release(InnerOf(tcb)),
      Acquire(KERNEL_SPACE), Release(KERNEL_SPACE)>>

\* TaskControlBlock::exec: `inner` is held to the end of the function
exec_accesses(self) ==
    <<Acquire(InnerOf(self)),
      Acquire(KERNEL_SPACE), Release(KERNEL_SPACE),
      Release(InnerOf(self))>>

\* fork as it would be if it reached the child's trap context through self
fork_accesses_self_twice(self, child) ==
    <<Acquire(InnerOf(self)),
      Acquire(InnerOf(self)), Release(InnerOf(self)),
      Release(InnerOf(self))>>

\* TaskControlBlock::fork: `parent_inner` is held to the end of the function, the
\* child's accessor is a temporary
fork_accesses(self, child) ==
    <<Acquire(InnerOf(self)),
      Acquire(InnerOf(child)), Release(InnerOf(child)),
      Release(InnerOf(self))>>

\* TaskControlBlock::spawn
spawn_accesses(self, child) ==
    <<Acquire(InnerOf(self)),
      Acquire(InnerOf(child)), Release(InnerOf(child)),
      Acquire(KERNEL_SPACE), Release(KERNEL_SPACE),
      Release(InnerOf(self))>>

\* TaskControlBlock::show_timer_before_exit: two temporaries, one after the other
show_timer_before_exit_accesses(self) ==
    <<Acquire(InnerOf(self)), Release(InnerOf(self)),
      Acquire(InnerOf(self)), Release(InnerOf(self))>>

(***************************************************************************)
(* The task operations as steps.  `last` names the last of new, exec, fork *)
(* and spawn that ran, and counts the exec calls and the steps of the      *)
(* environment (user code, the trap layer, the scheduler) taken so far.    *)
(***************************************************************************)
\* exec calls in one run
MaxExecs == 1

\* steps of user code, the trap layer and the scheduler in one run
MaxEnvSteps == 2

TaskIds == 1..Len(tasks)

\* the longest fd table: that of new (stdin, stdout, stderr)
MaxFds == 3

\* the alloc_fd calls made in a row: by task t, when env steps had been taken and
\* next_file files made, returning rets
NoFdCalls == [t |-> 0, env |-> 0, next_file |-> 0, rets |-> <<>>]

NoOp == [op |-> "none", t |-> 0, e |-> 0, execs |-> 0, env |-> 0, cells |-> NoAccessors,
         fds |-> NoFdCalls]

otherVarsTask == <<overflow_checks, addr, range, sys>>

SetState(n) ==
    /\ tasks' = n.tasks
    /\ frames' = n.frames
    /\ next_pid' = n.next_pid
    /\ next_file' = n.next_file
    /\ files' = n.files

\* the frames an address space loaded from image e allocates
SpaceSize(e) == Cardinality(ElfPages(e)) + 1

\* TaskControlBlock::new(elf_data), the result put in the task table
New(e) ==
    /\ Len(tasks) < MaxTasks
    /\ CanAlloc(frames, SpaceSize(e))
    /\ SetState(TaskControlBlock_new(State, e))
    /\ last' = [last EXCEPT !.op = "new", !.t = Len(tasks) + 1, !.e = e,
                             !.cells = RunAccesses(NoAccessors,
                                                   new_accesses(Len(tasks) + 1), 1)]
    /\ UNCHANGED otherVarsTask

\* task.exec(elf_data)
Exec(t, e) ==
    /\ last.execs < MaxExecs
    /\ CanAlloc(frames, SpaceSize(e))
    /\ SetState(TaskControlBlock_exec(State, t, e))
    /\ last' = [last EXCEPT !.op = "exec", !.t = t, !.e = e, !.execs = @ + 1,
                             !.cells = RunAccesses(NoAccessors, exec_accesses(t), 1)]
    /\ UNCHANGED otherVarsTask

\* task.fork()
Fork(t) ==
    /\ Len(tasks) < MaxTasks
    /\ CanAlloc(frames, Cardinality(DOMAIN tasks[t].memory_set.pt) - 1)
    /\ SetState(TaskControlBlock_fork(State, t))
    /\ last' = [last EXCEPT !.op = "fork", !.t = t, !.e = 0,
                             !.cells = RunAccesses(NoAccessors,
                                                   fork_accesses(t, Len(tasks) + 1), 1)]
    /\ UNCHANGED otherVarsTask

\* task.spawn(elf_data)
Spawn(t, e) ==
    /\ Len(tasks) < MaxTasks
    /\ CanAlloc(frames, SpaceSize(e))
    /\ SetState(TaskControlBlock_spawn(State, t, e))
    /\ last' = [last EXCEPT !.op = "spawn", !.t = t, !.e = e,
                             !.cells = RunAccesses(NoAccessors,
                                                   spawn_accesses(t, Len(tasks) + 1), 1)]
    /\ UNCHANGED otherVarsTask

EnvStep ==
    /\ last.env < MaxEnvSteps
    /\ last' = [last EXCEPT !.env = @ + 1]

\* task.inner_exclusive_access().increase_user_timer(ms)
IncreaseUserTimer(t, ms) ==
    /\ EnvStep
    /\ tasks' = [tasks EXCEPT ![t] = increase_user_timer(@, ms)]
    /\ UNCHANGED <<frames, next_pid, next_file, files, otherVarsTask>>

\* task.inner_exclusive_access().increase_kernel_timer(ms)
IncreaseKernelTimer(t, ms) ==
    /\ EnvStep
    /\ tasks' = [tasks EXCEPT ![t] = increase_kernel_timer(@, ms)]
    /\ UNCHANGED <<frames, next_pid, next_file, files, otherVarsTask>>

\* user code of task t stores val to one of its writable pages: the store goes to
\* the frame the task's page table maps the page onto
UserStore(t, v, val) ==
    /\ EnvStep
    /\ v \in WritablePages \cap DOMAIN tasks[t].memory_set.pt
    /\ frames' = [frames EXCEPT ![tasks[t].memory_set.pt[v]].bytes = val]
    /\ frames' # frames
    /\ UNCHANGED <<tasks, next_pid, next_file, files, otherVarsTask>>

\* the trap layer saves the user registers of task t in its trap context
TrapSave(t, val) ==
    /\ EnvStep
    /\ frames' = [frames EXCEPT ![tasks[t].trap_cx_ppn].cx.regs = val]
    /\ frames' # frames
    /\ UNCHANGED <<tasks, next_pid, next_file, files, otherVarsTask>>

\* the scheduler runs a Ready task: exactly one task is Running at a time
RunTask(t) ==
    /\ EnvStep
    /\ tasks[t].task_status = "Ready"
    /\ \A u \in TaskIds : tasks[u].task_status # "Running"
    /\ tasks' = [tasks EXCEPT ![t].task_status = "Running"]
    /\ UNCHANGED <<frames, next_pid, next_file, files, otherVarsTask>>

\* the Running task yields
SuspendTask(t) ==
    /\ EnvStep
    /\ tasks[t].task_status = "Running"
    /\ tasks' = [tasks EXCEPT ![t].task_status = "Ready"]
    /\ UNCHANGED <<frames, next_pid, next_file, files, otherVarsTask>>

\* the Running task exits with a code
ExitTask(t, code) ==
    /\ EnvStep
    /\ tasks[t].task_status = "Running"
    /\ tasks' = [tasks EXCEPT ![t].task_status = "Zombie", ![t].exit_code = code]
    /\ UNCHANGED <<frames, next_pid, next_file, files, otherVarsTask>>

\* task t closes descriptor fd: fd_table[fd].take(), and the Arc taken out is dropped
CloseFd(t, fd) ==
    /\ EnvStep
    /\ fd \in 1..Len(tasks[t].fd_table)
    /\ tasks[t].fd_table[fd] # <<>>
    /\ tasks' = [tasks EXCEPT ![t].fd_table[fd] = <<>>]
    /\ files' = Arc_drop(files, tasks[t].fd_table[fd])
    /\ UNCHANGED <<frames, next_pid, next_file, otherVarsTask>>

\* alloc_fd calls in a row
MaxAllocs == 2

\* files opened after the three of new
MaxOpens == 2

\* the last alloc_fd call was one of task t, and no slot of any table was closed (an
\* env step) or stored to (a new file) since
InARow(t) ==
    /\ last.op = "alloc_fd"
    /\ last.fds.t = t /\ last.fds.env = last.env /\ last.fds.next_file = next_file

RetsInARow(t) == IF InARow(t) THEN last.fds.rets ELSE <<>>

\* task.inner_exclusive_access().alloc_fd()
AllocFd(t) ==
    /\ Len(RetsInARow(t)) < MaxAllocs
    /\ LET r == alloc_fd(tasks[t])
       IN  /\ tasks' = [tasks EXCEPT ![t] = r.inner]
           /\ last' = [last EXCEPT !.op = "alloc_fd", !.t = t, !.e = 0,
                                    !.fds = [t |-> t, env |-> last.env,
                                             next_file |-> next_file,
                                             rets |-> Append(RetsInARow(t), r.fd)]]
    /\ UNCHANGED <<frames, next_pid, next_file, files, otherVarsTask>>

\* the caller of alloc_fd opens a file and stores it in the slot it was given:
\* inner.fd_table[fd] = Some(file)
StoreFd(t) ==
    /\ InARow(t)
    /\ next_file < 3 + MaxOpens
    /\ LET fd == last.fds.rets[Len(last.fds.rets)]
       IN  tasks' = [tasks EXCEPT ![t].fd_table[fd + 1] = NewFile(next_file + 1, "OSInode")]
    /\ files' = Append(files, 1)
    /\ next_file' = next_file + 1
    /\ last' = [last EXCEPT !.op = "store", !.t = t, !.e = 0]
    /\ UNCHANGED <<frames, next_pid, otherVarsTask>>

\* task.show_timer_before_exit(), called for a task that has exited: reads the two
\* timers and logs them
ShowTimerBeforeExit(t) ==
    /\ tasks[t].task_status = "Zombie"
    /\ last.op # "show_timer"
    /\ last' = [last EXCEPT !.op = "show_timer", !.t = t, !.e = 0,
                             !.cells = RunAccesses(NoAccessors,
                                                   show_timer_before_exit_accesses(t), 1)]
    /\ UNCHANGED <<tasks, frames, next_pid, next_file, files, otherVarsTask>>

(***************************************************************************)
(* os/src/syscall/mod.rs: the dispatcher and its time accounting.          *)
(* sys holds the clock (get_time_ms), LAST_ENTERING_TIME, APP_RUNTIME_CNT, *)
(* the current task (get_current_taskid), where each task is (in user      *)
(* mode, switched out inside sys_yield, or exited), the locals of a        *)
(* syscall() call suspended in sys_yield, and the last dispatch.           *)
(***************************************************************************)
SYSCALL_WRITE == 64

SYSCALL_EXIT == 93

SYSCALL_YIELD == 124

SYSCALL_GET_TIME == 169

SYSCALL_TRACE == 94

SYSCALL_TASKINFO == 410

\* tasks 1..NumSysTasks are loaded at boot
NumSysTasks == 2

\* the clock runs from 0 (boot) to MaxTime milliseconds
MaxTime == 2

\* a handler that returns without switching takes 0..MaxDt milliseconds
MaxDt == 1

\* ids that are no syscall of this kernel are 0..MaxOtherId, and 9999
MaxOtherId == 1

SysTasks == 1..NumSysTasks

SyscallIds ==
    {SYSCALL_WRITE, SYSCALL_EXIT, SYSCALL_YIELD, SYSCALL_GET_TIME, SYSCALL_TRACE,
     SYSCALL_TASKINFO} \cup 0..MaxOtherId \cup {9999}

NoCall == [id |-> 0, handler |-> "none", task |-> 0, returned |-> FALSE]

SysIdle == [clock |-> 0, LAST_ENTERING_TIME |-> 0, APP_RUNTIME_CNT |-> <<>>,
            current |-> 0, pc |-> <<>>, saved |-> <<>>, created |-> <<>>,
            panicked |-> FALSE, call |-> NoCall]

\* the match of syscall() as it would be with a default arm that returns an error
syscall_handler_default_returns(syscall_id) ==
    CASE syscall_id = SYSCALL_WRITE -> "sys_write"
      [] syscall_id = SYSCALL_EXIT -> "sys_exit"
      [] syscall_id = SYSCALL_TRACE -> "sys_trace"
      [] syscall_id = SYSCALL_YIELD -> "sys_yield"
      [] syscall_id = SYSCALL_GET_TIME -> "sys_get_time"
      [] syscall_id = SYSCALL_TASKINFO -> "sys_taskinfo"
      [] OTHER -> "return_minus_one"

\* the match of syscall(): the handler an id is routed to
syscall_handler(syscall_id) ==
    CASE syscall_id = SYSCALL_WRITE -> "sys_write"
      [] syscall_id = SYSCALL_EXIT -> "sys_exit"
      [] syscall_id = SYSCALL_TRACE -> "sys_trace"
      [] syscall_id = SYSCALL_YIELD -> "sys_yield"
      [] syscall_id = SYSCALL_GET_TIME -> "sys_get_time"
      [] syscall_id = SYSCALL_TASKINFO -> "sys_taskinfo"
      [] OTHER -> "panic"

\* syscall(), before the match, as it would be without the store to LAST_ENTERING_TIME
syscall_entry_keeps_stamp(s, syscall_id) ==
    LET time_at_start == s.clock
        taskid == s.current
    IN  [s EXCEPT !.APP_RUNTIME_CNT[taskid][1] = @ + (time_at_start - s.LAST_ENTERING_TIME),
                  !.saved[taskid] = [taskid |-> taskid, time_at_start |-> time_at_start],
                  !.call = [id |-> syscall_id, handler |-> syscall_handler(syscall_id),
                            task |-> taskid, returned |-> FALSE]]

\* syscall(), before the match: time_at_start = get_time_ms(), taskid =
\* get_current_taskid(), APP_RUNTIME_CNT[taskid].0 += time_at_start - LAST_ENTERING_TIME,
\* LAST_ENTERING_TIME = time_at_start
syscall_entry(s, syscall_id) ==
    LET time_at_start == s.clock
        taskid == s.current
    IN  [s EXCEPT !.APP_RUNTIME_CNT[taskid][1] = @ + (time_at_start - s.LAST_ENTERING_TIME),
                  !.LAST_ENTERING_TIME = time_at_start,
                  !.saved[taskid] = [taskid |-> taskid, time_at_start |-> time_at_start],
                  !.call = [id |-> syscall_id, handler |-> syscall_handler(syscall_id),
                            task |-> taskid, returned |-> FALSE]]

\* syscall(), after the handler returned, as it would be if the handler's time were
\* measured from LAST_ENTERING_TIME, the latest entry of any task
syscall_return_since_last_entry(s, locals) ==
    LET time_now == s.clock
    IN  [s EXCEPT !.APP_RUNTIME_CNT[locals.taskid][2] = @ + (time_now - s.LAST_ENTERING_TIME),
                  !.call.returned = TRUE]

\* syscall(), after the handler returned: time_now = get_time_ms(),
\* APP_RUNTIME_CNT[taskid].1 += time_now - time_at_start, ret
syscall_return(s, locals) ==
    LET time_now == s.clock
    IN  [s EXCEPT !.APP_RUNTIME_CNT[locals.taskid][2] = @ + (time_now - locals.time_at_start),
                  !.call.returned = TRUE]

otherVarsSys == <<overflow_checks, addr, range, tasks, frames, next_pid, next_file, files, last>>

CanTrap == ~sys.panicked /\ sys.current \in SysTasks /\ sys.pc[sys.current] = "user"

\* a millisecond passes (in user or in kernel mode)
Tick ==
    /\ ~sys.panicked
    /\ sys.clock < MaxTime
    /\ sys' = [sys EXCEPT !.clock = @ + 1]
    /\ UNCHANGED otherVarsSys

\* syscall(id, args) with a handler that returns to the caller dt ms later
SyscallReturns(id, dt) ==
    /\ CanTrap
    /\ syscall_handler(id) \notin {"sys_yield", "sys_exit", "panic"}
    /\ sys.clock + dt <= MaxTime
    /\ LET entered == syscall_entry(sys, id)
           handled == [entered EXCEPT !.clock = @ + dt]
       IN  sys' = syscall_return(handled, handled.saved[handled.current])
    /\ UNCHANGED otherVarsSys

\* syscall(SYSCALL_YIELD, args) up to the switch inside sys_yield: the scheduler runs
\* some task that has not exited, the caller again when it picks it
SyscallYield(id, next) ==
    /\ CanTrap
    /\ syscall_handler(id) = "sys_yield"
    /\ sys.pc[next] # "exited"
    /\ LET entered == syscall_entry(sys, id)
       IN  sys' = [entered EXCEPT !.pc[sys.current] = "in_yield", !.current = next]
    /\ UNCHANGED otherVarsSys

\* the task is switched back in: sys_yield returns and syscall() finishes
YieldReturns ==
    /\ ~sys.panicked /\ sys.current \in SysTasks
    /\ sys.pc[sys.current] = "in_yield"
    /\ sys' = [syscall_return(sys, sys.saved[sys.current]) EXCEPT !.pc[sys.current] = "user"]
    /\ UNCHANGED otherVarsSys

\* syscall(SYSCALL_EXIT, args): sys_exit never returns; the scheduler runs another
\* task that has not exited, if there is one
SyscallExit(id, next) ==
    /\ CanTrap
    /\ syscall_handler(id) = "sys_exit"
    /\ \/ next \in SysTasks \ {sys.current} /\ sys.pc[next] # "exited"
       \/ next = 0 /\ \A u \in SysTasks \ {sys.current} : sys.pc[u] = "exited"
    /\ LET entered == syscall_entry(sys, id)
       IN  sys' = [entered EXCEPT !.pc[sys.current] = "exited", !.current = next]
    /\ UNCHANGED otherVarsSys

\* syscall(id, args) with an id the match does not know: panic!
SyscallUnsupported(id) ==
    /\ CanTrap
    /\ syscall_handler(id) = "panic"
    /\ sys' = [syscall_entry(sys, id) EXCEPT !.panicked = TRUE]
    /\ UNCHANGED otherVarsSys

\* boot: the tasks are loaded at time 0, LAST_ENTERING_TIME is the boot time, task 1 runs
SysBoot ==
    [SysIdle EXCEPT !.APP_RUNTIME_CNT = [t \in SysTasks |-> <<0, 0>>],
                    !.current = 1,
                    !.pc = [t \in SysTasks |-> "user"],
                    !.saved = [t \in SysTasks |-> [taskid |-> t, time_at_start |-> 0]],
                    !.created = [t \in SysTasks |-> 0]]

NextSys ==
    \/ Tick
    \/ \E id \in SyscallIds, dt \in 0..MaxDt : SyscallReturns(id, dt)
    \/ \E id \in SyscallIds, next \in SysTasks : SyscallYield(id, next)
    \/ YieldReturns
    \/ \E id \in SyscallIds, next \in 0..NumSysTasks : SyscallExit(id, next)
    \/ \E id \in SyscallIds : SyscallUnsupported(id)

InitTask ==
    /\ tasks = <<>>
    /\ frames = (TrampolinePpn :> TrampolineCode)
    /\ next_pid = 0
    /\ next_file = 0
    /\ files = <<>>
    /\ last = NoOp

Init ==
    /\ overflow_checks = FALSE
    /\ addr = AddrIdle
    /\ range = NoRange
    /\ InitTask
    /\ sys = SysIdle

Next ==
    \/ \E e \in Elfs : New(e)
    \/ \E t \in TaskIds, e \in Elfs : Exec(t, e)
    \/ \E t \in TaskIds : Fork(t)
    \/ \E t \in TaskIds, e \in Elfs : Spawn(t, e)
    \/ \E t \in TaskIds, ms \in 1..MaxTimer : IncreaseUserTimer(t, ms)
    \/ \E t \in TaskIds, ms \in 1..MaxTimer : IncreaseKernelTimer(t, ms)
    \/ \E t \in TaskIds, v \in WritablePages, val \in 0..MaxVal : UserStore(t, v, val)
    \/ \E t \in TaskIds, val \in 0..MaxVal : TrapSave(t, val)
    \/ \E t \in TaskIds : RunTask(t)
    \/ \E t \in TaskIds : SuspendTask(t)
    \/ \E t \in TaskIds, code \in 1..MaxVal : ExitTask(t, code)
    \/ \E t \in TaskIds, fd \in 1..MaxFds : CloseFd(t, fd)
    \/ \E t \in TaskIds : ShowTimerBeforeExit(t)

Spec == Init /\ [][Next]_vars

\* the state after boot (InitTask) as a value
BootState == [tasks |-> <<>>, frames |-> (TrampolinePpn :> TrampolineCode),
              next_pid |-> 0, next_file |-> 0, files |-> <<>>]

\* the descriptor tables: the first task has been made by new, from the first image
InitFd ==
    /\ overflow_checks = FALSE
    /\ addr = AddrIdle
    /\ range = NoRange
    /\ sys = SysIdle
    /\ tasks = TaskControlBlock_new(BootState, 1).tasks
    /\ frames = TaskControlBlock_new(BootState, 1).frames
    /\ next_pid = TaskControlBlock_new(BootState, 1).next_pid
    /\ next_file = TaskControlBlock_new(BootState, 1).next_file
    /\ files = TaskControlBlock_new(BootState, 1).files
    /\ last = [NoOp EXCEPT !.op = "new", !.t = 1, !.e = 1]

NextFd ==
    \* one more task, with the empty table of spawn
    \/ Len(tasks) = 1 /\ Spawn(1, 1)
    \/ \E t \in TaskIds : AllocFd(t)
    \/ \E t \in TaskIds : StoreFd(t)
    \/ \E t \in TaskIds, fd \in 1..(MaxFds + MaxOpens) : CloseFd(t, fd)

SpecFd == InitFd /\ [][NextFd]_vars

InitAddr ==
    /\ overflow_checks \in BOOLEAN
    /\ addr \in {[AddrIdle EXCEPT !.x = w] : w \in InputWords}
    /\ range = NoRange
    /\ InitTask
    /\ sys = SysIdle

NextAddr ==
    \/ DoVirtAddrFrom
    \/ DoUsizeFromVirtAddr
    \/ DoSecondPass
    \/ DoVirtAddrFloor
    \/ DoVirtAddrCeil
    \/ DoVirtAddrAligned
    \/ DoPhysAddrFrom
    \/ DoPhysAddrFloor
    \/ DoPhysAddrCeil
    \/ DoVirtPageNumFrom
    \/ DoVirtAddrFromVirtPageNum
    \/ DoVirtPageNumFromVirtAddr
    \/ DoIndexes
    \/ \E src \in DOMAIN StartReg : DoPageStart(src)
    \/ DoPageStartStepped
    \/ DoPhysPageNumFrom
    \/ DoPhysAddrFromPhysPageNum
    \/ DoPhysPageNumFromPhysAddr
    \/ DoRangeNew
    \/ DoIntoIter
    \/ DoIterNext

SpecAddr == InitAddr /\ [][NextAddr]_vars


(***************************************************************************)
(* Claims about the task operations (specification Spec)                   *)
(***************************************************************************)
\* the contents of virtual page v as task record tcb sees it in frames fr
PageOf(fr, tcb, v) == fr[tcb.memory_set.pt[v]]

MappedPages(tcb) == DOMAIN tcb.memory_set.pt

\* a fork step by task p has just produced child c == Len(tasks'): both spaces map
\* the same pages, the trampoline onto the same frame, every other page onto
\* different frames
ForkMapsCopies(p) ==
    LET par == tasks'[p]
        chi == tasks'[Len(tasks')]
    IN  /\ MappedPages(chi) = MappedPages(par)
        /\ chi.memory_set.pt[TRAMPOLINE] = par.memory_set.pt[TRAMPOLINE]
        /\ \A v \in MappedPages(par) \ {TRAMPOLINE} :
              chi.memory_set.pt[v] # par.memory_set.pt[v]

\* every page of the child holds what the parent's page holds
ForkContentsEqual(p) ==
    LET par == tasks'[p]
        chi == tasks'[Len(tasks')]
    IN  \A v \in MappedPages(par) \ {TRAMPOLINE} :
           PageOf(frames', chi, v) = PageOf(frames', par, v)

\* every page of the child holds what the parent's page holds, but for the kernel_sp
\* of the trap context, which is the top of the child's own kernel stack
ForkContentsEqualButKernelSp(p) ==
    LET par == tasks'[p]
        chi == tasks'[Len(tasks')]
    IN  \A v \in MappedPages(par) \ {TRAMPOLINE} :
           IF v = TRAP_CONTEXT
           THEN PageOf(frames', chi, v) =
                   [PageOf(frames', par, v) EXCEPT
                       !.cx.kernel_sp = KernelStack_get_top(chi.kernel_stack)]
           ELSE PageOf(frames', chi, v) = PageOf(frames', par, v)

\* a step in which task u writes (a user store, or its registers saved in its trap
\* context) leaves every page of its parent and of its children as it was
WriteIsolated ==
    \A u \in TaskIds :
       ((\E v \in WritablePages, val \in 0..MaxVal : UserStore(u, v, val))
          \/ (\E val \in 0..MaxVal : TrapSave(u, val)))
       => \A w \in TaskIds :
             (tasks[u].parent = <<w>> \/ tasks[w].parent = <<u>>)
             => \A v \in MappedPages(tasks[w]) :
                   PageOf(frames', tasks'[w], v) = PageOf(frames, tasks[w], v)

\* the trampoline is the same physical page in every space, and no step changes it
TrampolineShared ==
    /\ \A u \in TaskIds : tasks[u].memory_set.pt[TRAMPOLINE] = TrampolinePpn
    /\ frames'[TrampolinePpn] = frames[TrampolinePpn]

\* C1 as stated: after fork the child maps the parent's pages onto different frames
\* whose contents equal the parent's, later writes through one mapping leave the
\* other's pages unchanged, and the trampoline is shared and never changes
C1_ForkCopiesAll ==
    [][/\ \A p \in TaskIds : Fork(p) => ForkMapsCopies(p) /\ ForkContentsEqual(p)
       /\ WriteIsolated
       /\ TrampolineShared]_vars

\* C1 amended: as C1, the contents being equal in everything but the kernel_sp field
\* of the trap-context page, which fork sets to the child's own kernel stack top
C1_ForkCopiesButKernelSp ==
    [][/\ \A p \in TaskIds :
             Fork(p) => ForkMapsCopies(p) /\ ForkContentsEqualButKernelSp(p)
       /\ WriteIsolated
       /\ TrampolineShared]_vars

LastChild(p) == tasks[p].children[Len(tasks[p].children)]

\* C1 witness: after a fork the parent has stored to its stack page and the child's
\* registers were saved, and neither sees the other's write
C1_Witness ==
    /\ last.op = "fork"
    /\ LET par == tasks[last.t]
           chi == tasks[LastChild(last.t)]
       IN  /\ PageOf(frames, par, "stack").bytes = 1
           /\ PageOf(frames, chi, "stack").bytes = 0
           /\ get_trap_cx(frames, chi).regs = 1
           /\ get_trap_cx(frames, par).regs = 0

\* what exec(e) on task t must leave alone
ExecKeeps(t) ==
    /\ tasks'[t].pid = tasks[t].pid
    /\ tasks'[t].kernel_stack = tasks[t].kernel_stack
    /\ tasks'[t].parent = tasks[t].parent
    /\ tasks'[t].children = tasks[t].children
    /\ tasks'[t].fd_table = tasks[t].fd_table
    /\ tasks'[t].task_status = tasks[t].task_status
    /\ tasks'[t].exit_code = tasks[t].exit_code
    /\ tasks'[t].runtime_in_user = tasks[t].runtime_in_user
    /\ tasks'[t].runtime_in_kernel = tasks[t].runtime_in_kernel

\* what exec(e) on task t replaces: the address space is the one of image e, on frames
\* the old space did not use, trap_cx_ppn is its trap-context frame, and the trap
\* context holds the entry point and the user stack pointer of e
ExecReplaces(t, e) ==
    LET old == tasks[t].memory_set
        new == tasks'[t].memory_set
    IN  /\ new.elf = e
        /\ DOMAIN new.pt = ElfPages(e) \cup {TRAP_CONTEXT, TRAMPOLINE}
        /\ \A v \in DOMAIN new.pt \ {TRAMPOLINE}, w \in DOMAIN old.pt : new.pt[v] # old.pt[w]
        /\ tasks'[t].trap_cx_ppn = new.pt[TRAP_CONTEXT]
        /\ tasks'[t].trap_cx_ppn # tasks[t].trap_cx_ppn
        /\ get_trap_cx(frames', tasks'[t]).sepc = ElfEntry(e)
        /\ get_trap_cx(frames', tasks'[t]).sp = ElfUserSp(e)

\* C2: exec leaves pid, kernel stack, parent, children, fd table, status, exit code and
\* time counters as they were, and replaces the address space, trap_cx_ppn and the
\* trap context's entry point and user stack pointer by those of the new image
C2_ExecFrame ==
    [][\A t \in TaskIds, e \in Elfs : Exec(t, e) => ExecKeeps(t) /\ ExecReplaces(t, e)]_vars

\* C2 witness: exec has run on a task that had a child, time on its counters and was
\* Running
C2_Witness ==
    /\ last.op = "exec"
    /\ tasks[last.t].children # <<>>
    /\ tasks[last.t].runtime_in_user > 0
    /\ tasks[last.t].task_status = "Running"
    /\ tasks[last.t].memory_set.elf = last.e

\* C3: spawn changes nothing of the parent but its children list, which gains the new
\* child at its end; the parent's pages and trap context hold what they held
C3_SpawnFrame ==
    [][\A t \in TaskIds, e \in Elfs :
          Spawn(t, e) =>
             /\ tasks'[t] = [tasks[t] EXCEPT !.children = Append(@, Len(tasks'))]
             /\ Len(tasks') = Len(tasks) + 1
             /\ tasks'[Len(tasks')].parent = <<t>>
             /\ \A v \in MappedPages(tasks[t]) :
                   PageOf(frames', tasks'[t], v) = PageOf(frames, tasks[t], v)
             /\ get_trap_cx(frames', tasks'[t]) = get_trap_cx(frames, tasks[t])]_vars

\* C3 witness: spawn has run on a Running parent that already had a child and whose
\* registers and stack hold values
C3_Witness ==
    /\ last.op = "spawn"
    /\ Len(tasks[last.t].children) >= 2
    /\ get_trap_cx(frames, tasks[last.t]).regs = 1
    /\ PageOf(frames, tasks[last.t], "stack").bytes = 1


(***************************************************************************)
(* Claims about the address algebra (specification SpecAddr)               *)
(***************************************************************************)
\* bits 63..39 of x all equal bit 38
Canonical(x) == \A i \in VA_WIDTH_SV39..(WORD_BITS - 1) : Bit(x, i) = Bit(x, VA_WIDTH_SV39 - 1)

\* the low 39 bits of x, and bit 38 of x in every bit above
CanonicalForm(x) ==
    [i \in BitIdx |-> IF i <= VA_WIDTH_SV39 THEN x[i] ELSE x[VA_WIDTH_SV39]]

\* C4: VirtAddr::from(x) holds the low 39 bits of x and nothing above; back in usize it
\* is x when x is canonical and the canonical form of x's low 39 bits otherwise; a
\* second from-then-into pass returns what it was given
C4_VirtAddrRoundTrip ==
    /\ Has("va") =>
          \A i \in 0..(WORD_BITS - 1) :
             Bit(Reg("va"), i) = IF i < 39 THEN Bit(addr.x, i) ELSE 0
    /\ Has("va_usize") =>
          /\ Canonical(addr.x) => Reg("va_usize") = addr.x
          /\ ~Canonical(addr.x) => Reg("va_usize") = CanonicalForm(addr.x)
          /\ addr.pass >= 1 => Reg("va_usize") = addr.x

\* C4 witness: the second pass has run on a sign-extended first result
C4_Witness ==
    /\ addr.pass = 1
    /\ Has("va_usize")
    /\ Bit(addr.x, 63) = 1
    /\ Bit(addr.x, 0) = 1

\* l, l+1, ..., r-1
RangeItems(l, r) == [i \in 1..(r - l) |-> l + i - 1]

\* C5: SimpleRange::new(l, r) panics exactly when l > r; an iteration yields
\* l, l+1, .., r-1 in that order and then ends, each time the range is iterated
C5_RangeIterates ==
    /\ range.st # "none" => (range.st = "panic" <=> range.l > range.r)
    /\ range.st = "range" /\ range.iter # <<>> =>
          /\ Len(range.out) <= range.r - range.l
          /\ range.out = SubSeq(RangeItems(range.l, range.r), 1, Len(range.out))
          /\ range.done => range.out = RangeItems(range.l, range.r)
          /\ range.done /\ range.l = range.r => range.out = <<>>
          /\ range.done /\ range.r = range.l + 1 => range.out = <<range.l>>

\* C5 witness: the second iteration of a range of at least two pages has ended
C5_Witness ==
    /\ range.st = "range"
    /\ range.runs = 2
    /\ range.done
    /\ Len(range.out) >= 2

\* the low 12 bits of a are zero
PageAligned(a) == \A i \in 0..(PAGE_SIZE_BITS - 1) : Bit(a, i) = 0

\* ceil returned c for an address whose floor is f: c = f when the address is aligned,
\* c = f + 1 when it is not
FloorCeilAgree(a, f, c) ==
    /\ ~c.panic
    /\ PageAligned(a) => c.v = f
    /\ ~PageAligned(a) => c.v = WrappingAdd(f, One)

\* C6: for every VirtAddr and PhysAddr a, address 0 included, ceil(a) = floor(a) when a
\* is page-aligned and ceil(a) = floor(a) + 1 when it is not
C6_FloorCeil ==
    /\ Has("va_floor") /\ Has("va_ceil") =>
          FloorCeilAgree(Reg("va"), Reg("va_floor"), Reg("va_ceil"))
    /\ Has("pa_floor") /\ Has("pa_ceil") =>
          FloorCeilAgree(Reg("pa"), Reg("pa_floor"), Reg("pa_ceil"))

\* the page number 0b111111111_000000000_000000001
Vpn511_0_1 == [i \in BitIdx |-> IF i = 1 \/ (i >= 19 /\ i <= 27) THEN 1 ELSE 0]

\* C7: indexes(v) is the three 9-bit fields of v, most significant first, each in
\* 0..511; indexes(0) = [0,0,0] and indexes(511 * 2^18 + 1) = [511, 0, 1]
C7_Indexes ==
    Has("vpn_idx") =>
       LET v == Reg("vpn")
           idx == Reg("vpn_idx")
       IN  /\ \A k \in 1..3 :
                 \A j \in 0..(WORD_BITS - 1) :
                    Bit(idx[k], j) = IF j < 9 THEN Bit(v, 9 * (3 - k) + j) ELSE 0
           /\ v = Zero => idx = <<Zero, Zero, Zero>>
           /\ v = Vpn511_0_1 => idx = <<LowMask(9), Zero, One>>

\* C7 witness: indexes has run on 0b111111111_000000000_000000001
C7_Witness == Has("vpn_idx") /\ Reg("vpn") = Vpn511_0_1

\* C8: a page number turned into its page-start address and floored is the page number
\* again, and the address has page offset 0
C8_PageNumRoundTrip ==
    /\ Has("ppn_addr") => PageAligned(Reg("ppn_addr")) /\ page_offset(Reg("ppn_addr")) = Zero
    /\ Has("ppn_back") => Reg("ppn_back") = Reg("ppn")
    /\ Has("vpn_addr") => PageAligned(Reg("vpn_addr")) /\ page_offset(Reg("vpn_addr")) = Zero
    /\ Has("vpn_back") => Reg("vpn_back") = Reg("vpn")

\* C8 witness: the round trip has run on a physical page number with its top bit (43)
\* and its lowest bit set
C8_Witness ==
    /\ Has("ppn_back")
    /\ Bit(Reg("ppn"), PPN_WIDTH_SV39 - 1) = 1
    /\ Bit(Reg("ppn"), 0) = 1


InitSys ==
    /\ overflow_checks = FALSE
    /\ addr = AddrIdle
    /\ range = NoRange
    /\ InitTask
    /\ sys = SysBoot

SpecSys == InitSys /\ [][NextSys]_vars

(***************************************************************************)
(* Claims about the syscall dispatcher (specification SpecSys)             *)
(***************************************************************************)
\* C9: syscall routes 64 to write, 93 to exit, 94 to trace, 124 to yield, 169 to
\* get-time and 410 to task-info, and panics on every other id without returning
C9_Routing ==
    sys.call.handler # "none" =>
       /\ sys.call.id = 64 => sys.call.handler = "sys_write"
       /\ sys.call.id = 93 => sys.call.handler = "sys_exit"
       /\ sys.call.id = 94 => sys.call.handler = "sys_trace"
       /\ sys.call.id = 124 => sys.call.handler = "sys_yield"
       /\ sys.call.id = 169 => sys.call.handler = "sys_get_time"
       /\ sys.call.id = 410 => sys.call.handler = "sys_taskinfo"
       /\ sys.call.id \notin {64, 93, 94, 124, 169, 410} =>
             sys.panicked /\ ~sys.call.returned
       /\ sys.panicked => sys.call.id \notin {64, 93, 94, 124, 169, 410}

\* C9 witness: id 9999 was dispatched after another call had returned, and the kernel
\* panicked
C9_Witness ==
    /\ sys.call.id = 9999
    /\ sys.panicked
    /\ \E t \in SysTasks : sys.APP_RUNTIME_CNT[t][2] > 0

\* C10: no task's user-time or kernel-time counter ever decreases, and the sum of a
\* task's two counters never exceeds the time elapsed since the task was created
C10_TimeAccounting ==
    [][\A t \in SysTasks :
          /\ sys'.APP_RUNTIME_CNT[t][1] >= sys.APP_RUNTIME_CNT[t][1]
          /\ sys'.APP_RUNTIME_CNT[t][2] >= sys.APP_RUNTIME_CNT[t][2]
          /\ sys'.APP_RUNTIME_CNT[t][1] + sys'.APP_RUNTIME_CNT[t][2]
                <= sys'.clock - sys'.created[t]]_vars

(***************************************************************************)
(* Claims about the inner cells and the fields of new TCBs                 *)
(* (specification Spec)                                                    *)
(***************************************************************************)
\* C11: in new, exec, fork, spawn and show_timer_before_exit no inner cell ever has
\* two exclusive accessors live at once (exclusive_access never panics), and at the
\* return no accessor of any TCB is still held
C11_AccessorsDisjoint ==
    last.op \in {"new", "exec", "fork", "spawn", "show_timer"} =>
       /\ ~last.cells.panicked
       /\ last.cells.held = {}

\* C11 witness: a fork, which holds the parent's and the child's accessor at once,
\* and later show_timer_before_exit on a task
C11_Witness ==
    /\ last.op = "show_timer"
    /\ last.cells.peak = 1
    /\ \E t \in TaskIds : tasks[t].parent # <<>>

\* C12: fork returns a child that is Ready, has the forking task as parent, no
\* children, exit code 0, zero time counters, the parent's base size and an fd table
\* of the parent's length whose slot i is empty iff the parent's is and otherwise
\* refers to the same file; the child is the last of the parent's children and its
\* pid is not the parent's
C12_ForkChild ==
    [][\A p \in TaskIds :
          Fork(p) =>
             LET par == tasks[p]
                 chi == tasks'[Len(tasks')]
             IN  /\ Len(tasks') = Len(tasks) + 1
                 /\ chi.task_status = "Ready"
                 /\ chi.parent = <<p>>
                 /\ chi.children = <<>>
                 /\ chi.exit_code = 0
                 /\ chi.runtime_in_user = 0
                 /\ chi.runtime_in_kernel = 0
                 /\ chi.base_size = par.base_size
                 /\ Len(chi.fd_table) = Len(par.fd_table)
                 /\ \A i \in 1..Len(par.fd_table) :
                       /\ (chi.fd_table[i] = <<>>) <=> (par.fd_table[i] = <<>>)
                       /\ par.fd_table[i] # <<>> =>
                             chi.fd_table[i][1].file = par.fd_table[i][1].file
                 /\ tasks'[p].children = Append(par.children, Len(tasks'))
                 /\ chi.pid # par.pid]_vars

\* C12 witness: a fork by a parent that had closed a descriptor, had time on a counter
\* and already had a child
C12_Witness ==
    /\ last.op = "fork"
    /\ LET par == tasks[last.t]
           chi == tasks[LastChild(last.t)]
       IN  /\ \E i \in 1..Len(par.fd_table) : par.fd_table[i] = <<>> /\ chi.fd_table[i] = <<>>
           /\ \E i \in 1..Len(par.fd_table) : par.fd_table[i] # <<>>
           /\ par.runtime_in_user + par.runtime_in_kernel > 0
           /\ chi.runtime_in_user + chi.runtime_in_kernel = 0
           /\ Len(par.children) = 2

\* C13: right after fork the child's trap context equals the parent's in every field
\* but kernel_sp, which is the top of the child's own kernel stack; the parent's trap
\* context, its kernel_sp included, is what it was before the fork
C13_ForkTrapContext ==
    [][\A p \in TaskIds :
          Fork(p) =>
             LET chi == tasks'[Len(tasks')]
                 par_cx == get_trap_cx(frames', tasks'[p])
                 chi_cx == get_trap_cx(frames', chi)
             IN  /\ par_cx = get_trap_cx(frames, tasks[p])
                 /\ chi_cx = [par_cx EXCEPT !.kernel_sp = KernelStack_get_top(chi.kernel_stack)]
                 /\ chi_cx.kernel_sp # par_cx.kernel_sp
                 /\ par_cx.kernel_sp = KernelStack_get_top(tasks[p].kernel_stack)]_vars

\* C13 witness: a fork by a parent whose trap context held saved registers
C13_Witness ==
    /\ last.op = "fork"
    /\ LET par_cx == get_trap_cx(frames, tasks[last.t])
           chi_cx == get_trap_cx(frames, tasks[LastChild(last.t)])
       IN  /\ par_cx.regs = 1
           /\ chi_cx.regs = 1
           /\ chi_cx.sepc = par_cx.sepc
           /\ chi_cx.kernel_sp # par_cx.kernel_sp

\* C14: new(elf) returns a TCB that is Ready, has no parent, no children, exit code 0,
\* both time counters 0, the image's initial user stack pointer as base size, an fd
\* table of exactly three occupied slots (0 stdin, 1 stdout, 2 stderr), and a trap
\* context initialised with the image's entry point, that user stack pointer and the
\* top of the task's own kernel stack
C14_New ==
    [][\A e \in Elfs :
          New(e) =>
             LET tcb == tasks'[Len(tasks')]
                 cx == get_trap_cx(frames', tcb)
             IN  /\ Len(tasks') = Len(tasks) + 1
                 /\ tcb.task_status = "Ready"
                 /\ tcb.parent = <<>>
                 /\ tcb.children = <<>>
                 /\ tcb.exit_code = 0
                 /\ tcb.runtime_in_user = 0
                 /\ tcb.runtime_in_kernel = 0
                 /\ tcb.base_size = ElfUserSp(e)
                 /\ Len(tcb.fd_table) = 3
                 /\ \A i \in 1..3 : tcb.fd_table[i] # <<>>
                 /\ tcb.fd_table[1][1].kind = "Stdin"
                 /\ tcb.fd_table[2][1].kind = "Stdout"
                 /\ tcb.fd_table[3][1].kind = "Stdout"
                 /\ cx.sepc = ElfEntry(e)
                 /\ cx.sp = ElfUserSp(e)
                 /\ cx.kernel_sp = KernelStack_get_top(tcb.kernel_stack)
                 /\ \A u \in TaskIds :
                       KernelStack_get_top(tasks[u].kernel_stack) # cx.kernel_sp]_vars

\* C14 witness: new has built a second task, from the second image, after the first
\* task had run
C14_Witness ==
    /\ last.op = "new"
    /\ last.t = 2
    /\ last.e = 2
    /\ tasks[1].task_status = "Running"
    /\ tasks[2].base_size = ElfUserSp(2)

\* C15: spawn(elf) returns a child with a new pid and kernel stack, an address space
\* built from the image that shares no frame but the trampoline with the parent's,
\* status Ready, the caller as parent, no children, an fd table of zero slots whatever
\* the parent's table is, and a trap context initialised from the image's entry point
\* and user stack pointer, not copied from the parent
C15_SpawnChild ==
    [][\A p \in TaskIds, e \in Elfs :
          Spawn(p, e) =>
             LET chi == tasks'[Len(tasks')]
                 cx == get_trap_cx(frames', chi)
             IN  /\ Len(tasks') = Len(tasks) + 1
                 /\ \A u \in TaskIds :
                       /\ tasks[u].pid # chi.pid
                       /\ tasks[u].kernel_stack # chi.kernel_stack
                 /\ chi.memory_set.elf = e
                 /\ MappedPages(chi) = ElfPages(e) \cup {TRAP_CONTEXT, TRAMPOLINE}
                 /\ PageOf(frames', chi, "text").bytes = ElfCode(e)
                 /\ \A v \in MappedPages(chi) \ {TRAMPOLINE}, w \in MappedPages(tasks[p]) :
                       chi.memory_set.pt[v] # tasks[p].memory_set.pt[w]
                 /\ chi.trap_cx_ppn = chi.memory_set.pt[TRAP_CONTEXT]
                 /\ chi.task_status = "Ready"
                 /\ chi.parent = <<p>>
                 /\ chi.children = <<>>
                 /\ chi.fd_table = <<>>
                 /\ cx = TrapContext_app_init_context(
                            ElfEntry(e), ElfUserSp(e), KernelToken,
                            KernelStack_get_top(chi.kernel_stack), "trap_handler")]_vars

\* C15 witness: a spawn of the second image by a parent that runs the first, has
\* saved registers and an occupied fd table
C15_Witness ==
    /\ last.op = "spawn"
    /\ last.e = 2
    /\ LET par == tasks[last.t]
           chi == tasks[LastChild(last.t)]
       IN  /\ par.memory_set.elf = 1
           /\ get_trap_cx(frames, par).regs = 1
           /\ get_trap_cx(frames, chi).regs = 0
           /\ \E i \in 1..Len(par.fd_table) : par.fd_table[i] # <<>>
           /\ chi.fd_table = <<>>

\* the slots, in any task, that refer to file f
SlotsOf(f) ==
    {ti \in TaskIds \X (1..MaxFds) :
        /\ ti[2] <= Len(tasks[ti[1]].fd_table)
        /\ tasks[ti[1]].fd_table[ti[2]] # <<>>
        /\ tasks[ti[1]].fd_table[ti[2]][1].file = f}

\* a file is live (not yet dropped) as long as a slot refers to it, and is dropped
\* when none does
FilesOwnedBySlots ==
    \A f \in 1..Len(files) :
       LET owners == Cardinality(SlotsOf(f))
       IN  /\ files[f] = owners
           /\ owners > 0 => files[f] > 0

\* C16: emptying a descriptor slot in one process leaves every other process's slots
\* as they were, occupied and referring to a live file; a file shared through fork is
\* released only when the last slot that refers to it, in any process, is emptied
C16_SharedFiles ==
    [][/\ \A t \in TaskIds, fd \in 1..MaxFds :
             CloseFd(t, fd) =>
                \A u \in TaskIds \ {t} :
                   /\ tasks'[u].fd_table = tasks[u].fd_table
                   /\ \A i \in 1..Len(tasks[u].fd_table) :
                         tasks[u].fd_table[i] # <<>> =>
                            files'[tasks[u].fd_table[i][1].file] > 0
       /\ FilesOwnedBySlots']_vars

\* C16 witness: after a fork the parent has closed descriptor 0 and the child
\* descriptor 1: each still has the slot the other closed, the two files are live with
\* one owner each, and the file of descriptor 2 has both as owners
C16_Witness ==
    /\ last.op = "fork"
    /\ LET par == tasks[last.t]
           chi == tasks[LastChild(last.t)]
       IN  /\ Len(par.fd_table) = 3
           /\ par.fd_table[1] = <<>> /\ chi.fd_table[1] # <<>>
           /\ files[chi.fd_table[1][1].file] = 1
           /\ chi.fd_table[2] = <<>> /\ par.fd_table[2] # <<>>
           /\ files[par.fd_table[2][1].file] = 1
           /\ par.fd_table[3] = chi.fd_table[3]
           /\ files[par.fd_table[3][1].file] = 2

(***************************************************************************)
(* More claims about the address algebra (specification SpecAddr)          *)
(***************************************************************************)
\* the results that an operation applied so far has failed to return
Failed == {n \in DOMAIN addr.r \cap {"va_ceil", "pa_ceil"} : addr.r[n].panic}

\* C17: every operation of the address algebra but range construction returns a value
\* for every input: none overflows, underflows or panics, ceil on address 0 and the
\* conversions of the largest values included
C17_Total ==
    /\ Failed = {}
    /\ Has("va_off") => Reg("va_off").aligned = PageAligned(Reg("va"))

\* the flat integers obtained so far from a VirtAddr
VirtAddrUsizes ==
    {addr.r[n] : n \in DOMAIN addr.r \cap
                     {"va_usize", "vpn_start", "floor_start", "ceil_start", "step_start"}}

\* C18: every flat integer obtained by converting a VirtAddr to usize is canonical
\* (bits 63..39 equal bit 38), for VirtAddr::from(usize) and for the page-start address
\* of a VirtPageNum obtained by from(usize), floor, ceil or stepping
C18_Canonical == \A u \in VirtAddrUsizes : Canonical(u)

(***************************************************************************)
(* More claims about the syscall dispatcher (specification SpecSys)        *)
(***************************************************************************)
\* a step that enters syscall(): the id it was called with is the one in sys'.call
Dispatch ==
    LET id == sys'.call.id
    IN  /\ CanTrap
        /\ id \in SyscallIds
        /\ \/ \E dt \in 0..MaxDt : SyscallReturns(id, dt)
           \/ \E next \in SysTasks : SyscallYield(id, next)
           \/ \E next \in 0..NumSysTasks : SyscallExit(id, next)
           \/ SyscallUnsupported(id)

\* C19: on every call of syscall the time from the stored last-entry timestamp to the
\* entry time is added to a counter of the task current at entry, and to no other
\* task's, and the last-entry timestamp becomes the entry time; so the timestamp is
\* the entry time of the most recent dispatch and never decreases
C19_EntryAccounting ==
    [][/\ Dispatch =>
             /\ sys'.APP_RUNTIME_CNT[sys.current][1] =
                   sys.APP_RUNTIME_CNT[sys.current][1] + (sys.clock - sys.LAST_ENTERING_TIME)
             /\ sys.clock >= sys.LAST_ENTERING_TIME
             /\ \A u \in SysTasks \ {sys.current} :
                   sys'.APP_RUNTIME_CNT[u][1] = sys.APP_RUNTIME_CNT[u][1]
             /\ sys'.LAST_ENTERING_TIME = sys.clock
             /\ sys'.call.task = sys.current
       /\ ~Dispatch => sys'.LAST_ENTERING_TIME = sys.LAST_ENTERING_TIME
       /\ sys'.LAST_ENTERING_TIME >= sys.LAST_ENTERING_TIME
       /\ sys'.call.handler # "none" =>
             sys'.LAST_ENTERING_TIME = sys'.saved[sys'.call.task].time_at_start]_vars

\* C19 witness: task 2 has entered syscall at time 2, after task 1 had entered at
\* time 1 and switched to it: each was charged one millisecond
C19_Witness ==
    /\ sys.call.task = 2
    /\ sys.LAST_ENTERING_TIME = 2
    /\ sys.pc[1] = "in_yield"
    /\ sys.APP_RUNTIME_CNT[1][1] = 1
    /\ sys.APP_RUNTIME_CNT[2][1] = 1

(***************************************************************************)
(* A further claim about the tasks (specification Spec)                    *)
(***************************************************************************)
\* C20: after any sequence of new, fork, spawn and exec every task's base_size is the
\* initial user stack pointer of the image loaded in its address space (for a forked
\* child, of the image it inherited)
C20_BaseSize ==
    \A t \in TaskIds : tasks[t].base_size = ElfUserSp(tasks[t].memory_set.elf)

(***************************************************************************)
(* Invariants of the task table (specification Spec)                       *)
(***************************************************************************)
\* the physical page a task's own address space translates TRAP_CONTEXT to
TrapCxPage(t) == MemorySet_translate(tasks[t].memory_set, TRAP_CONTEXT)

\* C21: after any sequence of new, fork, spawn and exec every task's cached trap_cx_ppn
\* is the physical page its own current address space translates the TRAP_CONTEXT page
\* to, and no two tasks have the same trap_cx_ppn
C21_TrapCxPpn ==
    /\ \A t \in TaskIds : TrapCxPage(t) = <<tasks[t].trap_cx_ppn>>
    /\ \A t, u \in TaskIds : t # u => tasks[t].trap_cx_ppn # tasks[u].trap_cx_ppn

\* a task was made by new, one by fork and one by spawn, and the last operation was an
\* exec that moved the task's trap context to a frame other than the first one a new
\* address space gets
C21_Witness ==
    /\ last.op = "exec"
    /\ Len(tasks) = 3
    /\ \E t, u \in TaskIds :
          /\ tasks[t].parent # <<>> /\ tasks[t].fd_table = <<>>
          /\ tasks[u].parent # <<>> /\ tasks[u].fd_table # <<>>
    /\ tasks[last.t].memory_set.elf = last.e
    /\ tasks[last.t].trap_cx_ppn > Len(PageOrder)

\* how often task c occurs in the children list of task p
TimesChildOf(c, p) ==
    Cardinality({i \in 1..Len(tasks[p].children) : tasks[p].children[i] = c})

\* the task k parent links above t, <<>> past a root
RECURSIVE AncestorAt(_, _)
AncestorAt(t, k) ==
    IF k = 0 THEN <<t>>
    ELSE LET below == AncestorAt(t, k - 1)
         IN  IF below = <<>> THEN <<>> ELSE tasks[below[1]].parent

\* c is in the children list of p exactly when c's parent refers to p
LinksAgree ==
    \A p, c \in TaskIds : TimesChildOf(c, p) > 0 <=> tasks[c].parent = <<p>>

\* a task occurs at most once in at most one children list
ChildOnce ==
    \A c \in TaskIds :
        /\ \A p \in TaskIds : TimesChildOf(c, p) <= 1
        /\ \A p, q \in TaskIds : TimesChildOf(c, p) > 0 /\ TimesChildOf(c, q) > 0 => p = q

\* no task is reached from itself by following parent links
NoCycle ==
    \A t \in TaskIds : \A k \in 1..Len(tasks) : AncestorAt(t, k) # <<t>>

\* the task a call of new has just put in the table has no parent and no children
NewMakesRoot ==
    (\E e \in Elfs : New(e)) =>
        /\ tasks'[Len(tasks')].parent = <<>>
        /\ tasks'[Len(tasks')].children = <<>>

\* C22: after any sequence of new, fork, spawn and exec the parent/children links form
\* a forest: c is in the children list of p exactly when c's parent refers to p, every
\* task occurs at most once in at most one children list, a task created by new has no
\* parent, and no task is its own ancestor
C22_Forest ==
    /\ [](LinksAgree /\ ChildOnce /\ NoCycle)
    /\ [][NewMakesRoot]_vars

\* a forked task has spawned a child of its own (a chain of three tasks), and one of
\* the three has since called exec
C22_Witness ==
    /\ Len(tasks) = 3
    /\ tasks[1].parent = <<>> /\ tasks[1].children = <<2>>
    /\ tasks[2].parent = <<1>> /\ tasks[2].children = <<3>> /\ tasks[2].fd_table # <<>>
    /\ tasks[3].parent = <<2>> /\ tasks[3].fd_table = <<>>
    /\ AncestorAt(3, 2) = <<1>>
    /\ last.op = "exec" /\ last.t = 2

(***************************************************************************)
(* alloc_fd (specification SpecFd)                                         *)
(***************************************************************************)
\* the positions of the empty slots of a table, counted from 0 as the code does
EmptyFds(fd_table) == {fd \in 0..(Len(fd_table) - 1) : fd_table[fd + 1] = <<>>}

\* what a call of alloc_fd on task t has returned and done to the table
AllocFdResult(t) ==
    LET old == tasks[t].fd_table
        new == tasks'[t].fd_table
        fd == last'.fds.rets[Len(last'.fds.rets)]
    IN  /\ IF EmptyFds(old) # {}
           THEN /\ fd \in EmptyFds(old)
                /\ \A other \in EmptyFds(old) : fd <= other
                /\ new = old
           ELSE /\ new = Append(old, <<>>)
                /\ fd = Len(old)
        \* the returned slot is not marked occupied
        /\ new[fd + 1] = <<>>
        /\ tasks' = [tasks EXCEPT ![t].fd_table = new]

\* the alloc_fd calls made in a row, with no store in between, returned one index
SameIndexInARow ==
    \A i, j \in 1..Len(last.fds.rets) : last.fds.rets[i] = last.fds.rets[j]

\* C23: alloc_fd returns the lowest index of an empty slot of the fd table and leaves
\* the table unchanged when there is one; otherwise it appends one empty slot and
\* returns its index, the old length.  It never marks the returned slot occupied, so
\* two calls in a row with no store in between return the same index
C23_AllocFd ==
    /\ [][\A t \in TaskIds : AllocFd(t) => AllocFdResult(t)]_vars
    /\ []SameIndexInARow

\* a table that has grown to four slots, of which slots 1 and 3 have been closed: two
\* calls in a row have both returned 1
C23_Witness ==
    /\ last.op = "alloc_fd"
    /\ last.fds.rets = <<1, 1>>
    /\ Len(tasks[last.t].fd_table) = 4
    /\ EmptyFds(tasks[last.t].fd_table) = {1, 3}

\* a full table: the first call appended a slot and returned the old length, the
\* second returned the same slot
C23_WitnessPush ==
    /\ last.op = "alloc_fd"
    /\ last.fds.rets = <<3, 3>>
    /\ Len(tasks[last.t].fd_table) = 4
    /\ EmptyFds(tasks[last.t].fd_table) = {3}

(***************************************************************************)
(* The handler's time (specification SpecSys)                              *)
(***************************************************************************)
\* the second counter of every task
HandlerTime(s) == [t \in SysTasks |-> s.APP_RUNTIME_CNT[t][2]]

\* the second counters after d more milliseconds were added to that of task t
HandlerTimePlus(t, d) == [HandlerTime(sys) EXCEPT ![t] = @ + d]

\* a call that is switched out in sys_yield keeps the task and the time of its entry,
\* whatever the tasks running in between do, and nothing is recorded for it yet
SuspendedCall ==
    /\ (sys'.call.id \in SyscallIds /\ sys'.current \in SysTasks
            /\ SyscallYield(sys'.call.id, sys'.current)) =>
          /\ sys'.saved[sys.current] = [taskid |-> sys.current, time_at_start |-> sys.clock]
          /\ HandlerTime(sys') = HandlerTime(sys)
    /\ \A t \in SysTasks :
          sys.pc[t] = "in_yield" /\ sys'.pc[t] = "in_yield" => sys'.saved[t] = sys.saved[t]

\* when sys_yield returns, the time from the entry of that call to now goes to the task
\* that made the call
ResumedCall ==
    YieldReturns =>
        LET t == sys.saved[sys.current].taskid
        IN  /\ t = sys.current
            /\ HandlerTime(sys') = HandlerTimePlus(t, sys.clock - sys.saved[t].time_at_start)

\* a handler that returns without a switch: its own time goes to the caller
DirectCall ==
    (sys'.call.id \in SyscallIds /\ sys'.clock - sys.clock \in 0..MaxDt
        /\ SyscallReturns(sys'.call.id, sys'.clock - sys.clock)) =>
        HandlerTime(sys') = HandlerTimePlus(sys.current, sys'.clock - sys.clock)

\* sys_exit never returns: nothing is recorded for the call, then or later
ExitedCall ==
    /\ (sys'.call.id \in SyscallIds /\ sys'.current \in 0..NumSysTasks
            /\ SyscallExit(sys'.call.id, sys'.current)) =>
          HandlerTime(sys') = HandlerTime(sys)
    /\ \A t \in SysTasks :
          sys.pc[t] = "exited" => HandlerTime(sys')[t] = HandlerTime(sys)[t]

\* C24: the time from the entry of syscall() to the return of the handler is added to
\* the second counter of the task that was current at the entry, also when the handler
\* switched to other tasks before it returned, so that it includes the time those tasks
\* ran; when the handler never returns (exit) nothing is recorded for the call
C24_HandlerDuration ==
    [][SuspendedCall /\ ResumedCall /\ DirectCall /\ ExitedCall]_vars

\* task 1 yielded at time 0 without having run, task 2 ran for a millisecond and
\* yielded back, and the yield of task 1 returned: that millisecond is in the second
\* counter of task 1
C24_Witness ==
    /\ sys.current = 1 /\ sys.pc[1] = "user" /\ sys.pc[2] = "in_yield"
    /\ sys.saved[1].time_at_start = 0
    /\ sys.saved[2].time_at_start = 1
    /\ sys.LAST_ENTERING_TIME = 1
    /\ sys.APP_RUNTIME_CNT[1] = <<0, 1>>
    /\ sys.APP_RUNTIME_CNT[2] = <<1, 0>>

====
